---- MODULE Spec2Model ----
(***************************************************************************)
(* Model of the ASIMOV protocol implementation asmv-js:                    *)
(*   - the async queue            (packages/utils AsyncQueue.ts)           *)
(*   - the client context         (packages/core Contexts/ClientContext)   *)
(*   - the service context        (packages/core Contexts/ServiceContext)  *)
(*   - the execution runner and the channel route of the koa service       *)
(* Each part has its own specification over its own variables; the         *)
(* variables of the other parts keep their initial value.                  *)
(***************************************************************************)
EXTENDS Integers, Sequences, FiniteSets, TLC

VARIABLES
    \* ---- async queue on its own (SpecQ)
    queue,          \* TAsyncQueue: [items, consumers]
    waiters,        \* promise of every waitForAsyncQueue call, by waiter id
    lastWait,       \* record of the last waitForAsyncQueue call (history)
    \* ---- client context (SpecClient)
    cStatus,        \* ClientContext.status
    cQueue,         \* ClientContext.messageQueue
    cReceived,      \* messages handled by handleIncomingMessage so far (history)
    cGot,           \* messages returned by getMessage so far (history)
    cWait,          \* outcome of the pending / last getMessage call
    cSend,          \* the pending / last send operation of the client context
    \* ---- the message iterator of a client context (SpecIter)
    cIter,          \* position of getMessages() and what it has yielded
    \* ---- service context and its execution runner (Spec)
    status,                 \* ServiceContext.status
    state,                  \* ServiceContext.state (the handler's State value)
    configProfiles,         \* ServiceContext.configProfiles (names stored)
    incomingMessageQueue,   \* ServiceContext.incomingMessageQueue
    inputQueue,             \* ServiceContext.inputQueue
    returnBuffer,           \* ServiceContext.returnBuffer
    registered,             \* the context is in the service's ContextManager
    outbox,                 \* every call of the send-function, in call order
    handler,                \* position and locals of the command handler
    runner,                 \* position of executeCommandHandler's callbacks
    stored,                 \* entry of the context store for this channel
    lastReply,              \* outcome of the last upcall wait (history)
    hist,                   \* counters and flags (history)
    \* ---- channel route of the koa service, one suspended channel (SpecRouter)
    rStore,         \* the context store holds an entry for the channel
    rManager,       \* context the ContextManager maps the channel id to (0: none)
    rCtx,           \* every context constructed for the channel, by number
    rReq,           \* position and locals of every request of the channel route
    rCount,         \* suspensions and handler entries so far (history)
    rQueue,         \* input queue of every context of the channel, by number
    rSnapshot,      \* inputQueue of the serialized state in the store entry
    rTaken,         \* inputs the handlers have taken with getInputs (history)
    \* ---- invoke route of the koa service (SpecInvoke)
    nCtx,           \* every context the invoke route has created, by number
    nLog            \* every invoke request with its response, in arrival order

qvars == <<queue, waiters, lastWait>>
cvars == <<cStatus, cQueue, cReceived, cGot, cWait, cSend>>
svars == <<status, state, configProfiles, incomingMessageQueue, inputQueue, returnBuffer,
           registered, outbox, handler, runner, stored, lastReply, hist>>
rvars == <<rStore, rManager, rCtx, rReq, rCount, rQueue, rSnapshot, rTaken>>
ivars == <<cIter>>
nvars == <<nCtx, nLog>>
vars == <<queue, waiters, lastWait, cStatus, cQueue, cReceived, cGot, cWait, cSend, cIter,
          status, state, configProfiles, incomingMessageQueue, inputQueue, returnBuffer,
          registered, outbox, handler, runner, stored, lastReply, hist,
          rStore, rManager, rCtx, rReq, rCount, rQueue, rSnapshot, rTaken, nCtx, nLog>>

----------------------------------------------------------------------------
(* Bounds of the model *)

MaxQueue == 3       \* longest buffer of the stand-alone queue
MaxWaiters == 2     \* waitForAsyncQueue calls on the stand-alone queue
MaxClientMsgs == 3  \* messages a client context receives
MaxSteps == 4       \* accepted messages plus handler API calls of a service context
MaxFlowSteps == 5   \* the same, for the user-confirmation flow (SpecFlow)
MaxSendFailures == 1 \* sends of a service context that fail on the transport
MaxRequests == 3    \* requests the channel route receives for the channel
MaxSuspensions == 3 \* times the channel's context is stored (the initial one included)
MaxInvokes == 2     \* requests the invoke route receives

----------------------------------------------------------------------------
(* Sequence helpers *)

RemoveAt(s, i) == SubSeq(s, 1, i - 1) \o SubSeq(s, i + 1, Len(s))

Range(s) == {s[i] : i \in 1..Len(s)}

----------------------------------------------------------------------------
(* Async queue: packages/utils/src/lib/AsyncQueue.ts *)

\* A predicate (acceptFn) is a record [kind, arg]; Accepts evaluates it.
Accepts(pred, item) ==
    CASE pred.kind = "any" -> TRUE
      [] pred.kind = "vals" -> item \in pred.arg
      [] pred.kind = "inputType" -> item.inputType = pred.arg
      [] pred.kind = "confirm" ->
            item.messageType = "ProvideUserConfirmation" /\ item.reqId = pred.arg
      [] pred.kind = "payment" ->
            item.messageType \in {"AuthorizePayment", "RejectPayment"} /\ item.reqId = pred.arg

\* Index of the first item the predicate accepts, 0 when there is none.
FirstAccepted(items, pred) ==
    IF \E i \in 1..Len(items) : Accepts(pred, items[i])
    THEN CHOOSE i \in 1..Len(items) :
            /\ Accepts(pred, items[i])
            /\ \A j \in 1..(i - 1) : ~Accepts(pred, items[j])
    ELSE 0

createAsyncQueue == [items |-> <<>>, consumers |-> <<>>]

\* removeAsyncQueueConsumer: splice the consumer of waiter id out of the list.
removeAsyncQueueConsumer(q, id) ==
    [q EXCEPT !.consumers = SelectSeq(@, LAMBDA c : c.id # id)]

\* addToAsyncQueue giving the item to the latest-registered acceptor
addToAsyncQueueLast(q, item) ==
    LET acc == {i \in 1..Len(q.consumers) : Accepts(q.consumers[i].pred, item)}
        hit == IF acc # {} THEN CHOOSE i \in acc : \A j \in acc : j <= i ELSE 0
    IN IF hit # 0
       THEN [queue |-> [q EXCEPT !.consumers =
                            SelectSeq(@, LAMBDA c : c.id # q.consumers[hit].id)],
             to |-> q.consumers[hit].id]
       ELSE [queue |-> [q EXCEPT !.items = Append(@, item)], to |-> 0]

\* addToAsyncQueue that also buffers an item it has handed to a consumer
addToAsyncQueueAlsoBuffers(q, item) ==
    LET acc == {i \in 1..Len(q.consumers) : Accepts(q.consumers[i].pred, item)}
        hit == IF acc # {} THEN CHOOSE i \in acc : \A j \in acc : i <= j ELSE 0
    IN IF hit # 0
       THEN [queue |-> [q EXCEPT !.consumers =
                            SelectSeq(@, LAMBDA c : c.id # q.consumers[hit].id),
                        !.items = Append(@, item)],
             to |-> q.consumers[hit].id]
       ELSE [queue |-> [q EXCEPT !.items = Append(@, item)], to |-> 0]

\* addToAsyncQueue: the first consumer (registration order) whose callback
\* accepts gets the item and deregisters itself (finalize); otherwise the
\* item is appended.  Result: the queue and the waiter resolved (0: none).
addToAsyncQueue(q, item) ==
    LET preds == [i \in 1..Len(q.consumers) |-> q.consumers[i].pred]
        hit == IF \E i \in 1..Len(preds) : Accepts(preds[i], item)
               THEN CHOOSE i \in 1..Len(preds) :
                        /\ Accepts(preds[i], item)
                        /\ \A j \in 1..(i - 1) : ~Accepts(preds[j], item)
               ELSE 0
    IN IF hit # 0
       THEN [queue |-> removeAsyncQueueConsumer(q, q.consumers[hit].id),
             to |-> q.consumers[hit].id]
       ELSE [queue |-> [q EXCEPT !.items = Append(@, item)], to |-> 0]

\* getFromAsyncQueue with the consumer callback of waitForAsyncQueue: the
\* consumer is registered, then offered the buffered items front to back; it
\* takes the first one it accepts and finalizes (deregisters).
getFromAsyncQueue(q, id, pred) ==
    LET idx == FirstAccepted(q.items, pred)
    IN IF idx = 0
       THEN [queue |-> [q EXCEPT !.consumers = Append(@, [id |-> id, pred |-> pred])],
             outcome |-> "pending", item |-> <<>>]
       ELSE [queue |-> [q EXCEPT !.items = RemoveAt(@, idx)],
             outcome |-> "item", item |-> <<q.items[idx]>>]

\* flushAsyncQueue that leaves the consumers registered
flushAsyncQueueItemsOnly(q, withError) ==
    [queue |-> [q EXCEPT !.items = <<>>],
     rejected |-> IF withError THEN {q.consumers[i].id : i \in 1..Len(q.consumers)} ELSE {}]

\* flushAsyncQueue: both collections are emptied; with an error every consumer
\* that was registered is called with it.  Result: the queue and the rejected
\* waiter ids.
flushAsyncQueue(q, withError) ==
    [queue |-> createAsyncQueue,
     rejected |-> IF withError THEN {q.consumers[i].id : i \in 1..Len(q.consumers)} ELSE {}]

\* waitForAsyncQueue: `queue.items.shift()` comes first and its result is
\* returned when the buffer is not empty; the predicate is consulted only by
\* the consumer that is registered afterwards.
waitForAsyncQueue(q, id, pred, waitForMs) ==
    IF Len(q.items) > 0
    THEN [queue |-> [q EXCEPT !.items = Tail(@)],
          outcome |-> "item", item |-> <<Head(q.items)>>]
    ELSE IF waitForMs < 0
    THEN [queue |-> q, outcome |-> "empty", item |-> <<>>]
    ELSE getFromAsyncQueue(q, id, pred)

----------------------------------------------------------------------------
(* Initial values of the service context *)

IdleHandler == [pc |-> "notStarted", type |-> "a", need |-> 0, got |-> <<>>, reqId |-> 0,
                err |-> "none"]
NoReply == [kind |-> "none", reqId |-> 0, outcome |-> "none", reply |-> <<>>]
NoEntry == [present |-> FALSE]

\* the history record of a new context; budget is the bound on its steps
InitHist ==
    [items |-> 0, steps |-> 0, fails |-> 0, nextReq |-> 1,
     cancelHandled |-> FALSE, onCancel |-> FALSE, onError |-> FALSE,
     refused |-> FALSE, onMessage |-> FALSE, budget |-> MaxSteps]

\* the fields of a new service context, its handler not started
SInitContext ==
    /\ status = "initialized"
    /\ state = 0
    /\ configProfiles = {}
    /\ incomingMessageQueue = createAsyncQueue
    /\ inputQueue = createAsyncQueue
    /\ returnBuffer = <<>>
    /\ registered = TRUE
    /\ outbox = <<>>
    /\ handler = IdleHandler
    /\ runner = "idle"
    /\ stored = NoEntry
    /\ lastReply = NoReply

SInitVars == SInitContext /\ hist = InitHist

\* The channel is suspended: its entry is in the store, no context is in
\* memory and no request has arrived yet.
NewRequest == [pc |-> "new", ctx |-> 0, wasRestored |-> FALSE, msg |-> "none", auth |-> TRUE]

RInitVars ==
    /\ rStore = TRUE
    /\ rManager = 0
    /\ rCtx = <<>>
    /\ rReq = [r \in 1..MaxRequests |-> NewRequest]
    /\ rCount = [suspensions |-> 1, entered |-> 0]
    /\ rQueue = <<>>
    /\ rSnapshot = <<>>
    /\ rTaken = {}

----------------------------------------------------------------------------
(* The async queue on its own: SpecQ *)

\* items pushed to the stand-alone queue: two distinguishable values
Vals == {1, 2}
Preds == {[kind |-> "vals", arg |-> s] : s \in (SUBSET Vals) \ {{}}}
Timeouts == {-1, 0, 1}      \* negative, none, positive

\* rivals: consumers other than the receiver that accepted the pushed item too
NoWaiter == [state |-> "unused", timer |-> FALSE, item |-> <<>>, rivals |-> 0]
NoWait == [called |-> FALSE, before |-> <<>>, pred |-> [kind |-> "any", arg |-> {}],
           outcome |-> "none", item |-> <<>>, after |-> <<>>]

QInitVars ==
    /\ queue = createAsyncQueue
    /\ waiters = [i \in 1..MaxWaiters |-> NoWaiter]
    /\ lastWait = NoWait

\* push(item)
QPush(v) ==
    /\ Len(queue.items) < MaxQueue
    /\ LET r == addToAsyncQueue(queue, v)
       IN /\ queue' = r.queue
          /\ waiters' = IF r.to = 0 THEN waiters
                        ELSE [waiters EXCEPT ![r.to] =
                                [state |-> "item", timer |-> FALSE, item |-> <<v>>,
                                 rivals |-> Cardinality({i \in 1..Len(queue.consumers) :
                                                Accepts(queue.consumers[i].pred, v)}) - 1]]
    /\ UNCHANGED lastWait

\* waitFor(predicate, timeout) by the next unused waiter
QWaitFor(id, pred, t) ==
    /\ waiters[id].state = "unused"
    /\ \A j \in 1..(id - 1) : waiters[j].state # "unused"
    /\ LET r == waitForAsyncQueue(queue, id, pred, t)
       IN /\ queue' = r.queue
          /\ waiters' = [waiters EXCEPT ![id] =
                [state |-> r.outcome, timer |-> (r.outcome = "pending" /\ t > 0),
                 item |-> r.item, rivals |-> 0]]
          /\ lastWait' = [called |-> TRUE, before |-> queue.items, pred |-> pred,
                          outcome |-> r.outcome, item |-> r.item,
                          after |-> r.queue.items]

\* the timer of a pending waitFor elapses: finalize, resolve(undefined)
QTimer(id) ==
    /\ waiters[id].state = "pending"
    /\ waiters[id].timer
    /\ queue' = removeAsyncQueueConsumer(queue, id)
    /\ waiters' = [waiters EXCEPT ![id] = [state |-> "empty", timer |-> FALSE, item |-> <<>>, rivals |-> 0]]
    /\ UNCHANGED lastWait

\* flush(error?)
QFlush(withError) ==
    /\ LET r == flushAsyncQueue(queue, withError)
       IN /\ queue' = r.queue
          /\ waiters' = [i \in 1..MaxWaiters |->
                IF i \in r.rejected
                THEN [state |-> "error", timer |-> FALSE, item |-> <<>>, rivals |-> 0]
                ELSE waiters[i]]
    /\ UNCHANGED lastWait

NoGet == [state |-> "none", timer |-> FALSE]

\* no send operation was called yet
NoSend == [pc |-> "idle", op |-> "none", calls |-> 0, tries |-> 0, result |-> "none",
           last |-> <<>>, emitted |-> 0]

CInitVars ==
    /\ cStatus = "invoked"
    /\ cQueue = createAsyncQueue
    /\ cReceived = <<>>
    /\ cGot = <<>>
    /\ cWait = NoGet
    /\ cSend = NoSend

\* getMessages() was not called yet
NoIter == [pc |-> "idle", yielded |-> <<>>]

IInitVars == cIter = NoIter

\* no invoke request has arrived yet
NInitVars ==
    /\ nCtx = <<>>
    /\ nLog = <<>>

QInit == QInitVars /\ CInitVars /\ SInitVars /\ RInitVars /\ IInitVars /\ NInitVars

QNext ==
    \/ \E v \in Vals : QPush(v) /\ UNCHANGED <<cvars, svars, rvars, ivars, nvars>>
    \/ \E id \in 1..MaxWaiters, p \in Preds, t \in Timeouts :
            QWaitFor(id, p, t) /\ UNCHANGED <<cvars, svars, rvars, ivars, nvars>>
    \/ \E id \in 1..MaxWaiters : QTimer(id) /\ UNCHANGED <<cvars, svars, rvars, ivars, nvars>>
    \/ \E e \in BOOLEAN : QFlush(e) /\ UNCHANGED <<cvars, svars, rvars, ivars, nvars>>

SpecQ == QInit /\ [][QNext]_vars

----------------------------------------------------------------------------
(* Claims about the async queue *)

\* C10: waitFor(predicate, timeout) on a queue whose buffer holds at least one
\* item satisfying the predicate removes and returns the first such item in
\* front-to-back order and leaves every other buffered item in place and in
\* order; an item that does not satisfy the predicate is never returned.
C10_WaitForTakesFirstMatch ==
    lastWait.called =>
        /\ (lastWait.outcome = "item" => Accepts(lastWait.pred, lastWait.item[1]))
        /\ (FirstAccepted(lastWait.before, lastWait.pred) # 0 =>
                LET i == FirstAccepted(lastWait.before, lastWait.pred)
                IN /\ lastWait.outcome = "item"
                   /\ lastWait.item = <<lastWait.before[i]>>
                   /\ lastWait.after = RemoveAt(lastWait.before, i))

\* positions of the registered consumers whose predicate accepts the item
Acceptors(q, item) == {i \in 1..Len(q.consumers) : Accepts(q.consumers[i].pred, item)}

\* C11: when push(item) is called and the item satisfies the predicates of
\* two or more registered consumers, exactly one consumer receives it, the
\* earliest-registered accepting one, and the item is not appended to the
\* buffer; if no consumer accepts, the item is appended at the tail.
C11_PushGoesToEarliestAcceptor ==
    [][\A v \in Vals : QPush(v) =>
          LET acc == Acceptors(queue, v)
          IN IF acc = {}
             THEN /\ queue'.items = Append(queue.items, v)
                  /\ queue'.consumers = queue.consumers
                  /\ waiters' = waiters
             ELSE LET first == CHOOSE i \in acc : \A j \in acc : i <= j
                      id == queue.consumers[first].id
                  IN /\ queue'.items = queue.items
                     /\ waiters'[id].state = "item"
                     /\ waiters'[id].item = <<v>>
                     /\ \A j \in (1..MaxWaiters) \ {id} : waiters'[j] = waiters[j]
                     /\ \A k \in 1..Len(queue'.consumers) : queue'.consumers[k].id # id]_vars

\* C11 witness: a waiter received a pushed item that another registered
\* consumer accepted as well.
C11_Witness ==
    \E id \in 1..MaxWaiters : waiters[id].state = "item" /\ waiters[id].rivals > 0

\* C12: flush(error) empties the buffered items and the registered
\* consumers and completes every waiter pending at that moment (every
\* registered consumer) with that error; flush() without an error empties
\* both and calls no consumer.
C12_FlushCompletesEveryWaiter ==
    [][\A e \in BOOLEAN : QFlush(e) =>
          /\ queue'.items = <<>>
          /\ queue'.consumers = <<>>
          /\ \A i \in 1..MaxWaiters :
                IF e /\ \E k \in 1..Len(queue.consumers) : queue.consumers[k].id = i
                THEN waiters'[i].state = "error"
                ELSE waiters'[i] = waiters[i]]_vars

\* C12 witness: two waiters were completed with the flush error and the
\* queue is empty.
C12_Witness ==
    /\ waiters[1].state = "error"
    /\ waiters[2].state = "error"
    /\ queue = createAsyncQueue

\* C13: waitFor on a queue with no matching buffered item: a negative
\* timeout completes at once with empty and registers no consumer; otherwise
\* the wait is pending, and a positive timeout that elapses completes it with
\* empty and deregisters its consumer.
C13_TimeoutSemantics ==
    [][/\ \A id \in 1..MaxWaiters, p \in Preds, t \in Timeouts :
            (QWaitFor(id, p, t) /\ FirstAccepted(queue.items, p) = 0) =>
                IF t < 0
                THEN waiters'[id].state = "empty" /\ queue' = queue
                ELSE /\ waiters'[id].state = "pending"
                     /\ waiters'[id].timer = (t > 0)
                     /\ queue'.items = queue.items
       /\ \A id \in 1..MaxWaiters :
            QTimer(id) =>
                /\ waiters'[id].state = "empty"
                /\ \A k \in 1..Len(queue'.consumers) : queue'.consumers[k].id # id]_vars

\* copies of value v the queue holds: buffered, or delivered to a waiter
Buffered(q, v) == Cardinality({i \in 1..Len(q.items) : q.items[i] = v})
Delivered(w, v) == Cardinality({id \in 1..MaxWaiters : w[id].state = "item" /\ w[id].item = <<v>>})

\* C39: under any interleaving of push, waitFor, timer expiry and flush a
\* waitFor that has completed (item, empty or error) never completes again,
\* and, flushes apart, every pushed item is held exactly once, in the buffer
\* or by one waiter: a push adds one copy of its value, every other step
\* keeps the number of copies of every value.
C39_QueueConservesItems ==
    [][/\ \A id \in 1..MaxWaiters :
            waiters[id].state \in {"item", "empty", "error"} => waiters'[id] = waiters[id]
       /\ (~\E e \in BOOLEAN : QFlush(e)) =>
            \A v \in Vals :
                Buffered(queue', v) + Delivered(waiters', v) =
                    Buffered(queue, v) + Delivered(waiters, v) + (IF QPush(v) THEN 1 ELSE 0)]_vars

\* C39 witness: one waiter holds a pushed item, another completed with empty
\* and the buffer holds two further items.
C39_Witness ==
    /\ \E id \in 1..MaxWaiters : waiters[id].state = "item"
    /\ \E id \in 1..MaxWaiters : waiters[id].state = "empty"
    /\ Len(queue.items) = 2

----------------------------------------------------------------------------
(* Client context: packages/core/src/lib/Contexts/ClientContext.ts *)

ClientMsgs ==
    {[messageType |-> "RequestInput", close |-> FALSE],
     [messageType |-> "Return", close |-> FALSE],
     [messageType |-> "Return", close |-> TRUE]}

\* ClientContext.dispose: the message queue is flushed with an error at
\* once; a pending getMessage is rejected with it.
ClientDispose(q, w) ==
    LET r == flushAsyncQueue(q, TRUE)
    IN [queue |-> r.queue,
        wait |-> IF 1 \in r.rejected THEN [state |-> "error", timer |-> FALSE] ELSE w]

\* ClientContext.close(status): set the status, emit onClose, dispose.
ClientClose(newStatus) ==
    /\ cStatus' = newStatus
    /\ LET d == ClientDispose(cQueue, cWait)
       IN cQueue' = d.queue /\ cWait' = d.wait

\* ClientContext.handleIncomingMessage
ClientHandleIncomingMessage(msg) ==
    /\ Len(cReceived) < MaxClientMsgs
    /\ cStatus = "invoked"
    /\ cReceived' = Append(cReceived, msg)
    /\ LET a == addToAsyncQueue(cQueue, msg)
           w == IF a.to = 1 THEN [state |-> "item", timer |-> FALSE] ELSE cWait
           closing == msg.messageType = "Return" /\ msg.close
           d == ClientDispose(a.queue, w)
       IN /\ cGot' = IF a.to = 1 THEN Append(cGot, msg) ELSE cGot
          /\ cStatus' = IF closing THEN "finished" ELSE cStatus
          /\ cQueue' = IF closing THEN d.queue ELSE a.queue
          /\ cWait' = IF closing THEN d.wait ELSE w
    /\ UNCHANGED cSend

\* a message for a context that is not Invoked is refused and changes nothing
ClientRejectIncomingMessage(msg) ==
    /\ cStatus # "invoked"
    /\ UNCHANGED cvars

\* ClientContext.getMessage(waitForMs): one call is outstanding at a time
ClientGetMessage(t) ==
    /\ cWait.state # "pending"
    /\ LET r == waitForAsyncQueue(cQueue, 1, [kind |-> "any", arg |-> {}], t)
       IN /\ cQueue' = r.queue
          /\ cWait' = [state |-> r.outcome, timer |-> (r.outcome = "pending" /\ t > 0)]
          /\ cGot' = IF r.outcome = "item" THEN cGot \o r.item ELSE cGot
    /\ UNCHANGED <<cStatus, cReceived, cSend>>

\* the timer of the pending getMessage elapses
ClientGetTimeout ==
    /\ cWait.state = "pending"
    /\ cWait.timer
    /\ cQueue' = removeAsyncQueueConsumer(cQueue, 1)
    /\ cWait' = [state |-> "empty", timer |-> FALSE]
    /\ UNCHANGED <<cStatus, cReceived, cGot, cSend>>

\* DefaultRetryOptions.sendMessageRetries
sendMessageRetries == 3

\* What a failed call of the transport throws: an error that is not an
\* AxiosError, an AxiosError without a response, or one with a response of
\* some status whose body is or is not a decodable error body.
HttpStatuses == {302, 400, 404, 500, 503}
TransportFailures ==
    {[axios |-> a, response |-> FALSE, status |-> 0, body |-> FALSE] : a \in BOOLEAN} \cup
    {[axios |-> TRUE, response |-> TRUE, status |-> st, body |-> b] :
        st \in HttpStatuses, b \in BOOLEAN}

\* transformAxiosError: the error the send-function throws for a failure
transformAxiosError(f) ==
    LET canRetry == ~(f.response /\ f.status >= 400 /\ f.status < 500)
    IN IF ~f.axios
       THEN [class |-> "MessageTransportError", canRetry |-> FALSE]
       ELSE IF f.response /\ f.body
       THEN [class |-> "HttpTransportError", canRetry |-> FALSE]
       ELSE [class |-> "MessageTransportError", canRetry |-> canRetry]

\* the retry test of ClientContext.sendMessage made on every error
RetryAny(err) == TRUE

\* `err instanceof MessageTransportError && err.canRetry`
Retryable(err) == err.class = "MessageTransportError" /\ err.canRetry

\* the status test of ClientContext.sendMessage passed by every status
MaySendAlways(st) == TRUE

\* the status test that opens ClientContext.sendMessage
MaySend(st) == st = "invoked"

ClientOps == {"provideInputs", "provideUserConfirmation", "authorizePayment", "cancel"}

\* provideInputs / provideUserConfirmation / authorizePayment / cancel up to
\* the first call of the send-function: ClientContext.sendMessage checks the
\* status, emits onOutgoingMessage and enters the retry loop (emitted counts
\* the onOutgoingMessage events of the operation)
ClientSendMessage(op) ==
    /\ cSend.pc # "calling"
    /\ cSend' = IF ~MaySend(cStatus)
                THEN [pc |-> "done", op |-> op, calls |-> 0, tries |-> 0,
                      result |-> "notInvoked", last |-> <<>>, emitted |-> 0]
                ELSE [pc |-> "calling", op |-> op, calls |-> 1, tries |-> 0,
                      result |-> "none", last |-> <<>>, emitted |-> 1]
    /\ UNCHANGED <<cStatus, cQueue, cReceived, cGot, cWait>>

\* ClientContext.cancel after its sendMessage returned: close(Cancelled)
ClientCancel == ClientClose("cancelled")

\* the send-function returns: the operation is through (cancel then closes)
ClientTransportSucceeds ==
    /\ cSend.pc = "calling"
    /\ cSend' = [cSend EXCEPT !.pc = "done", !.result = "ok", !.last = <<>>]
    /\ IF cSend.op = "cancel"
       THEN ClientCancel
       ELSE UNCHANGED <<cStatus, cQueue, cWait>>
    /\ UNCHANGED <<cReceived, cGot>>

\* the send-function throws: a retryable error is followed, after the delay,
\* by the next try while tries < maxTries; otherwise SendMessageError(channel,
\* tries, lastError) is thrown
ClientTransportFails(f) ==
    /\ cSend.pc = "calling"
    /\ LET err == transformAxiosError(f)
           tries == IF Retryable(err) THEN cSend.tries + 1 ELSE cSend.tries
           again == Retryable(err) /\ tries < sendMessageRetries
       IN cSend' = IF again
                   THEN [cSend EXCEPT !.tries = tries, !.calls = @ + 1, !.last = <<f>>]
                   ELSE [cSend EXCEPT !.pc = "done", !.tries = tries, !.result = "failed",
                                      !.last = <<f>>]
    /\ UNCHANGED <<cStatus, cQueue, cReceived, cGot, cWait>>

ClientInit == QInitVars /\ CInitVars /\ SInitVars /\ RInitVars /\ IInitVars /\ NInitVars

ClientNext ==
    \/ \E m \in ClientMsgs : ClientHandleIncomingMessage(m) /\ UNCHANGED <<qvars, svars, rvars, ivars, nvars>>
    \/ \E m \in ClientMsgs : ClientRejectIncomingMessage(m) /\ UNCHANGED <<qvars, svars, rvars, ivars, nvars>>
    \/ \E t \in Timeouts : ClientGetMessage(t) /\ UNCHANGED <<qvars, svars, rvars, ivars, nvars>>
    \/ ClientGetTimeout /\ UNCHANGED <<qvars, svars, rvars, ivars, nvars>>
    \/ \E op \in ClientOps : ClientSendMessage(op) /\ UNCHANGED <<qvars, svars, rvars, ivars, nvars>>
    \/ ClientTransportSucceeds /\ UNCHANGED <<qvars, svars, rvars, ivars, nvars>>
    \/ \E f \in TransportFailures : ClientTransportFails(f) /\ UNCHANGED <<qvars, svars, rvars, ivars, nvars>>

SpecClient == ClientInit /\ [][ClientNext]_vars

\* C9: when a client context handles a Return with close=true it becomes
\* Finished and every message enqueued up to and including that Return can
\* still be obtained by getMessage: what was received is what getMessage has
\* returned followed by what is still buffered.
C9_ClosingKeepsReceivedMessages ==
    cStatus = "finished" =>
        /\ cReceived # <<>>
        /\ cReceived[Len(cReceived)] = [messageType |-> "Return", close |-> TRUE]
        /\ cGot \o cQueue.items = cReceived

\* C21: a getMessage call returns the next received message or returns empty
\* (on timeout, or when the context is closed while the call is pending); it
\* never ends with an error.
C21_GetMessageNeverFails == cWait.state \in {"none", "pending", "item", "empty"}

\* the send-function threw a MessageTransportError marked canRetry
MarkedRetryable(f) ==
    LET err == transformAxiosError(f)
    IN err.class = "MessageTransportError" /\ err.canRetry

\* C18: one send operation of the client calls the transport at most
\* sendMessageRetries (3) times; a further call is made only after an error
\* marked retryable; success ends the operation; an error that is not
\* retryable ends it after that call and exhaustion ends it after the last
\* try, both as a failure that carries the number of retries and the cause.
C18_SendRetriesBounded ==
    [][/\ cSend'.calls <= sendMessageRetries
       /\ (cSend.pc = "calling" /\ cSend'.calls > cSend.calls) =>
             /\ cSend'.pc = "calling"
             /\ cSend'.calls = cSend.calls + 1
             /\ Len(cSend'.last) = 1
             /\ MarkedRetryable(cSend'.last[1])
       /\ (cSend.pc = "calling" /\ cSend'.pc = "done") =>
             /\ cSend'.calls = cSend.calls
             /\ \/ cSend'.result = "ok"
                \/ /\ cSend'.result = "failed"
                   /\ Len(cSend'.last) = 1
                   /\ IF MarkedRetryable(cSend'.last[1])
                      THEN /\ cSend'.calls = sendMessageRetries
                           /\ cSend'.tries = sendMessageRetries
                      ELSE cSend'.tries = cSend.tries]_vars

\* three retryable errors in a row: the operation failed after the third call
C18_Witness ==
    /\ cSend.result = "failed"
    /\ cSend.calls = sendMessageRetries
    /\ cSend.tries = sendMessageRetries

\* C19: a failed call of the transport is followed by another call (while
\* tries are left) exactly when there was no HTTP response or the response
\* status was 5xx, with or without a decodable error body in the response.
C19_RetriedIffNoResponseOr5xx ==
    [][\A f \in TransportFailures :
          (cSend.pc = "calling" /\ cSend.calls < sendMessageRetries /\ ClientTransportFails(f)) =>
              ((cSend'.calls = cSend.calls + 1) <=> (~f.response \/ f.status >= 500))]_vars

\* C20: when the Cancel message of cancel() is sent the context becomes
\* Cancelled, and every send operation called on a Cancelled context fails
\* with the not-invoked error without a call of the transport.
C20_NoSendAfterCancel ==
    [][/\ (cSend.pc = "calling" /\ cSend.op = "cancel" /\ cSend'.result = "ok") =>
             cStatus' = "cancelled"
       /\ \A op \in ClientOps :
             (cStatus = "cancelled" /\ ClientSendMessage(op)) =>
                 /\ cSend'.result = "notInvoked"
                 /\ cSend'.pc = "done"
                 /\ cSend'.calls = 0
                 /\ cStatus' = "cancelled"]_vars

\* provideInputs was called after cancel() and failed as not invoked
C20_Witness ==
    /\ cStatus = "cancelled"
    /\ cSend.op = "provideInputs"
    /\ cSend.result = "notInvoked"
    /\ cSend.calls = 0

\* C35: a client context emits onOutgoingMessage for a message only once
\* the transport has accepted it: while the send operation is under way, and
\* when it has failed on every attempt, no onOutgoingMessage event was
\* emitted for it.
C35_OutgoingEventOnlyOnSuccess ==
    cSend.emitted > 0 => (cSend.pc = "done" /\ cSend.result = "ok")

----------------------------------------------------------------------------
(* The message iterator of a client context: ClientContext.getMessages *)

\* the consumer asks for the next message (first call, or after the body of
\* its loop): `while (status === Invoked) { msg = await getMessage(); ... }`
ClientIterNext ==
    /\ cIter.pc \in {"idle", "processing"}
    /\ IF cStatus # "invoked"
       THEN /\ cIter' = [cIter EXCEPT !.pc = "done"]
            /\ UNCHANGED <<cQueue, cWait, cGot>>
       ELSE LET r == waitForAsyncQueue(cQueue, 1, [kind |-> "any", arg |-> {}], 0)
            IN /\ cQueue' = r.queue
               /\ cWait' = [state |-> r.outcome, timer |-> FALSE]
               /\ cGot' = IF r.outcome = "item" THEN cGot \o r.item ELSE cGot
               /\ cIter' = IF r.outcome = "item"
                           THEN [pc |-> "processing", yielded |-> cIter.yielded \o r.item]
                           ELSE [cIter EXCEPT !.pc = "waiting"]
    /\ UNCHANGED <<cStatus, cReceived, cSend>>

\* the awaited getMessage of the iterator is settled: a message is yielded,
\* `undefined` ends the iterator, a rejection is thrown to the consumer
ClientIterResume ==
    /\ cIter.pc = "waiting"
    /\ cWait.state \in {"item", "empty", "error"}
    /\ cIter' = CASE cWait.state = "item" ->
                        [pc |-> "processing", yielded |-> Append(cIter.yielded, cGot[Len(cGot)])]
                  [] cWait.state = "empty" -> [cIter EXCEPT !.pc = "done"]
                  [] cWait.state = "error" -> [cIter EXCEPT !.pc = "raised"]
    /\ UNCHANGED cvars

IterInit == QInitVars /\ CInitVars /\ SInitVars /\ RInitVars /\ IInitVars /\ NInitVars

\* the service's messages arrive, the consumer iterates and may cancel
IterNext ==
    \/ \E m \in ClientMsgs : ClientHandleIncomingMessage(m) /\ UNCHANGED <<qvars, svars, rvars, ivars, nvars>>
    \/ \E m \in ClientMsgs : ClientRejectIncomingMessage(m) /\ UNCHANGED <<qvars, svars, rvars, ivars, nvars>>
    \/ ClientSendMessage("cancel") /\ UNCHANGED <<qvars, svars, rvars, ivars, nvars>>
    \/ ClientTransportSucceeds /\ UNCHANGED <<qvars, svars, rvars, ivars, nvars>>
    \/ \E f \in TransportFailures : ClientTransportFails(f) /\ UNCHANGED <<qvars, svars, rvars, ivars, nvars>>
    \/ ClientIterNext /\ UNCHANGED <<qvars, svars, rvars, nvars>>
    \/ ClientIterResume /\ UNCHANGED <<qvars, svars, rvars, nvars>>

SpecIter == IterInit /\ [][IterNext]_vars

\* C22: getMessages() never raises, and once it has terminated it has yielded
\* every message the context received, in arrival order, the closing Return
\* included.
C22_IteratorYieldsAllAndEnds ==
    /\ cIter.pc # "raised"
    /\ (cIter.pc = "done" /\ cIter.yielded # <<>>) => cIter.yielded = cReceived

----------------------------------------------------------------------------
(* Service context: packages/core/src/lib/Contexts/ServiceContext.ts       *)
(* (src/unnamed/part_004)                                                  *)

ReqProfile == "cfg"         \* the config profile the command requires
InputTypes == {"a", "b"}    \* the input types the command declares

In(t, v) == [inputType |-> t, value |-> v]

\* validateInput: the type is declared and the value fits its schema (> 0)
ValidInput(i) == i.inputType \in InputTypes /\ i.value > 0

InputLists ==
    {<<>>, <<In("a", 1)>>, <<In("b", 1), In("a", 2)>>, <<In("x", 1)>>, <<In("a", 1), In("a", 0)>>}

InvokeMsgs ==
    {[messageType |-> "Invoke", profile |-> p, inputs |-> l, userConfirmation |-> u] :
        p \in {"valid", "invalid", "missing"}, l \in InputLists, u \in BOOLEAN}

ProvideInputMsgs == {[messageType |-> "ProvideInput", inputs |-> l] : l \in InputLists}

\* request ids an agent puts into its replies; counts passed to getInputs
ReqIds == {1, 2}
Counts == {1, 2}

ReplyMsgs ==
    {[messageType |-> t, reqId |-> r] :
        t \in {"ProvideUserConfirmation", "AuthorizePayment", "RejectPayment"}, r \in ReqIds}

CancelMsg == [messageType |-> "Cancel"]

IncomingMsgs == InvokeMsgs \cup ProvideInputMsgs \cup ReplyMsgs \cup {CancelMsg}

\* the confirmation synthesized at Invoke carries the empty reqId (0)
SyntheticConfirmation == [messageType |-> "ProvideUserConfirmation", reqId |-> 0]

\* sendMessage without its status check
sendMessageNoGuard(st, box, msg) == [sent |-> TRUE, outbox |-> Append(box, msg)]

\* ServiceContext.sendMessage: the send-function is called only when the
\* status is Active; otherwise the call throws and nothing is sent.
\* Result: whether the message went out, and the outbox.
sendMessage(st, box, msg) ==
    IF st # "active"
    THEN [sent |-> FALSE, outbox |-> box]
    ELSE [sent |-> TRUE, outbox |-> Append(box, msg)]

\* A message handed to the send-function; result is pending until the
\* transport call completes.
Out(type, items, close, reqId, by) ==
    [messageType |-> type, items |-> items, close |-> close, reqId |-> reqId,
     by |-> by, result |-> "pending"]

\* sendReturnBuffer that sends the slice and leaves it in the buffer
sendReturnBufferKept(st, buf, box, close, by) ==
    LET r == sendMessage(st, box, Out("Return", buf, close, 0, by))
    IN [sent |-> r.sent, outbox |-> r.outbox, returnBuffer |-> buf]

\* ServiceContext.sendReturnBuffer(close): the buffer is swapped for an
\* empty one and the slice is sent; when sendMessage throws at once the
\* catch block concatenates the slice back.
sendReturnBuffer(st, buf, box, close, by) ==
    LET r == sendMessage(st, box, Out("Return", buf, close, 0, by))
    IN [sent |-> r.sent, outbox |-> r.outbox,
        returnBuffer |-> IF r.sent THEN <<>> ELSE <<>> \o buf]

\* the continuation of getInputs that does not count the input it received
InputReceivedNotCounted(h, item) ==
    [h EXCEPT !.pc = "getInputs", !.got = Append(@, item)]

\* The handler after its pending wait (or an immediate waitForAsyncQueue)
\* yielded an item: the continuation of getInputs / requestUserConfirmation /
\* requestPayment.
InputReceived(h, item) ==
    IF h.need <= 1
    THEN [h EXCEPT !.pc = "ready", !.got = Append(@, item), !.need = 0, !.err = "none"]
    ELSE [h EXCEPT !.pc = "getInputs", !.got = Append(@, item), !.need = @ - 1]

ReplyReceived(h, item) ==
    IF h.pc \in {"sendConfirm", "waitConfirm"} \/ item.messageType = "AuthorizePayment"
    THEN [h EXCEPT !.pc = "ready", !.err = "none"]
    ELSE [h EXCEPT !.pc = "ready", !.err = "paymentRejected"]

ReplyOutcome(h, item) ==
    [kind |-> IF h.pc \in {"sendConfirm", "waitConfirm"} THEN "confirm" ELSE "payment",
     reqId |-> h.reqId,
     outcome |-> IF ReplyReceived(h, item).err = "none" THEN "ok" ELSE "rejected",
     reply |-> <<item>>]

\* The handler after its pending wait was rejected with a flush error.
WaitRejected(h, error) == [h EXCEPT !.pc = "ready", !.err = error]

\* addInputListToBuffer that stops after the first input
addFirstInputOnly(q, inputs) ==
    IF inputs = <<>>
    THEN [queue |-> q, given |-> <<>>]
    ELSE LET a == addToAsyncQueue(q, Head(inputs))
         IN [queue |-> a.queue, given |-> IF a.to # 0 THEN <<Head(inputs)>> ELSE <<>>]

\* ServiceContext.addInputListToBuffer: every input goes through
\* addToAsyncQueue in list order.  Result: the queue and the inputs handed
\* to the waiting consumer.
RECURSIVE addInputListToBuffer(_, _)
addInputListToBuffer(q, inputs) ==
    IF inputs = <<>>
    THEN [queue |-> q, given |-> <<>>]
    ELSE LET a == addToAsyncQueue(q, Head(inputs))
             rest == addInputListToBuffer(a.queue, Tail(inputs))
         IN [queue |-> rest.queue,
             given |-> (IF a.to # 0 THEN <<Head(inputs)>> ELSE <<>>) \o rest.given]

\* ServiceContext.cancel together with the service's onCancel listener
\* (Service.handleContextCreated -> deleteAndDisposeContext -> dispose): the
\* message queue is flushed with the cancelled error, onCancel is emitted and
\* the status becomes Cancelled.  The input queue is not touched.
cancel(q) == flushAsyncQueue(q, TRUE)

\* ServiceContext.dispose: the message queue is flushed with the disposed error.
dispose(q) == flushAsyncQueue(q, TRUE)

\* The switch of handleIncomingMessage: what the message does to the context.
\* Result: the fields it changes and whether the message was accepted.
Unchanged(accepted) ==
    [status |-> status, configProfiles |-> configProfiles, inputQueue |-> inputQueue,
     incomingMessageQueue |-> incomingMessageQueue, handler |-> handler,
     lastReply |-> lastReply, registered |-> registered, stored |-> stored,
     cancelled |-> FALSE, onMessage |-> FALSE, accepted |-> accepted]

DispatchInvoke(msg) ==
    IF status # "initialized"
    THEN Unchanged(FALSE)
    ELSE LET \* the profile loop stores a valid profile as it goes
             profiles == IF msg.profile = "valid"
                         THEN configProfiles \cup {ReqProfile} ELSE configProfiles
             errors == msg.profile # "valid"
                       \/ \E i \in 1..Len(msg.inputs) : ~ValidInput(msg.inputs[i])
             inq == addInputListToBuffer(inputQueue, msg.inputs).queue
             mq == IF msg.userConfirmation
                   THEN addToAsyncQueue(incomingMessageQueue, SyntheticConfirmation).queue
                   ELSE incomingMessageQueue
         IN IF errors
            THEN [Unchanged(FALSE) EXCEPT !.configProfiles = profiles]
            ELSE \* the invoke route then calls executeCommandHandler
                 [Unchanged(TRUE) EXCEPT !.configProfiles = profiles, !.status = "active",
                                         !.inputQueue = inq, !.incomingMessageQueue = mq,
                                         !.handler = [handler EXCEPT !.pc = "ready"]]

\* the ProvideInput case adding the inputs that precede the first invalid one
DispatchProvideInputValidPrefix(msg) ==
    LET bad == {i \in 1..Len(msg.inputs) : ~ValidInput(msg.inputs[i])}
        first == IF bad = {} THEN Len(msg.inputs) + 1
                 ELSE CHOOSE i \in bad : \A j \in bad : i <= j
        a == addInputListToBuffer(inputQueue, SubSeq(msg.inputs, 1, first - 1))
    IN IF status # "active"
       THEN Unchanged(FALSE)
       ELSE [Unchanged(bad = {}) EXCEPT
                !.inputQueue = a.queue,
                !.onMessage = (bad = {}),
                !.handler = IF a.given # <<>> THEN InputReceived(handler, a.given[1])
                            ELSE handler]

DispatchProvideInput(msg) ==
    IF status # "active" \/ \E i \in 1..Len(msg.inputs) : ~ValidInput(msg.inputs[i])
    THEN Unchanged(FALSE)
    ELSE LET a == addInputListToBuffer(inputQueue, msg.inputs)
         IN [Unchanged(TRUE) EXCEPT
                !.inputQueue = a.queue,
                !.onMessage = TRUE,
                !.handler = IF a.given # <<>> THEN InputReceived(handler, a.given[1])
                            ELSE handler]

\* the reply cases of the switch putting the message into the input queue
DispatchReplyIntoInputQueue(msg) ==
    IF status # "active"
    THEN Unchanged(FALSE)
    ELSE [Unchanged(TRUE) EXCEPT
            !.inputQueue = [inputQueue EXCEPT !.items = Append(@, msg)],
            !.onMessage = TRUE]

\* the reply cases of the switch without their status check
DispatchReplyAnyStatus(msg) ==
    LET a == addToAsyncQueue(incomingMessageQueue, msg)
    IN [Unchanged(TRUE) EXCEPT !.incomingMessageQueue = a.queue, !.onMessage = TRUE]

DispatchReply(msg) ==
    IF status # "active"
    THEN Unchanged(FALSE)
    ELSE LET a == addToAsyncQueue(incomingMessageQueue, msg)
         IN [Unchanged(TRUE) EXCEPT
                !.incomingMessageQueue = a.queue,
                !.onMessage = TRUE,
                !.handler = IF a.to # 0 THEN ReplyReceived(handler, msg) ELSE handler,
                !.lastReply = IF a.to # 0 THEN ReplyOutcome(handler, msg) ELSE lastReply]

DispatchCancel ==
    IF status # "active"
    THEN Unchanged(FALSE)
    ELSE LET f == cancel(incomingMessageQueue)
         IN [Unchanged(TRUE) EXCEPT
                !.incomingMessageQueue = dispose(f.queue).queue,
                !.handler = IF f.rejected # {} THEN WaitRejected(handler, "cancelled")
                            ELSE handler,
                !.registered = FALSE,
                !.stored = NoEntry,
                !.cancelled = TRUE,
                !.status = "cancelled"]

Dispatch(msg) ==
    CASE msg.messageType = "Invoke" -> DispatchInvoke(msg)
      [] msg.messageType = "ProvideInput" -> DispatchProvideInput(msg)
      [] msg.messageType = "Cancel" -> DispatchCancel
      [] OTHER -> DispatchReply(msg)

\* the status check that opens every case of the switch
RefusedByStatus(msg) ==
    IF msg.messageType = "Invoke" THEN status # "initialized" ELSE status # "active"

\* ServiceContext.handleIncomingMessage, for a context the router finds in
\* the context manager: the switch, then (finally) the flush of a non-empty
\* return buffer when the status is Active.
handleIncomingMessage(msg) ==
    /\ registered
    /\ hist.steps < hist.budget
    /\ LET d == Dispatch(msg)
           f == IF d.status = "active" /\ returnBuffer # <<>>
                THEN sendReturnBuffer(d.status, returnBuffer, outbox, FALSE, "dispatch")
                ELSE [sent |-> FALSE, outbox |-> outbox, returnBuffer |-> returnBuffer]
       IN /\ status' = d.status
          /\ configProfiles' = d.configProfiles
          /\ inputQueue' = d.inputQueue
          /\ incomingMessageQueue' = d.incomingMessageQueue
          /\ handler' = d.handler
          /\ lastReply' = d.lastReply
          /\ registered' = d.registered
          /\ stored' = d.stored
          /\ returnBuffer' = f.returnBuffer
          /\ outbox' = f.outbox
          /\ hist' = [hist EXCEPT !.steps = IF d.accepted THEN @ + 1 ELSE @,
                                  !.cancelHandled = @ \/ d.cancelled,
                                  !.onCancel = @ \/ d.cancelled,
                                  !.onMessage = @ \/ d.onMessage,
                                  !.refused = @ \/ RefusedByStatus(msg)]
    /\ UNCHANGED <<state, runner>>

----------------------------------------------------------------------------
(* The command handler: a serial program over the handler-visible API *)

Ready == handler.pc = "ready"
MayCall == Ready /\ hist.steps < hist.budget
Called == [hist EXCEPT !.steps = @ + 1]

\* a return item: an Output (outputType, data) or an Error (errorName,
\* description); id numbers the items in the order of the calls
Item(n, rt, name, text) == [id |-> n, returnType |-> rt, name |-> name, text |-> text]

\* ServiceContext.returnData with a valid output: append to the buffer
returnData ==
    /\ MayCall
    /\ returnBuffer' = Append(returnBuffer, Item(hist.items + 1, "Output", "out", "data"))
    /\ hist' = [Called EXCEPT !.items = @ + 1]
    /\ UNCHANGED <<status, state, configProfiles, incomingMessageQueue, inputQueue,
                   registered, outbox, handler, runner, stored, lastReply>>

\* the handler writes its State
setState ==
    /\ MayCall
    /\ state = 0
    /\ state' = 1
    /\ hist' = Called
    /\ UNCHANGED <<status, configProfiles, incomingMessageQueue, inputQueue, returnBuffer,
                   registered, outbox, handler, runner, stored, lastReply>>

\* the iterations of the getInputs loop with isWaiting = false: take what
\* waitForAsyncQueue(.., -1) returns until the count is reached or it
\* returns nothing; then a RequestInput is due.
RECURSIVE getInputsLoop(_, _)
getInputsLoop(h, q) ==
    IF h.pc # "getInputs"
    THEN [handler |-> h, queue |-> q, request |-> FALSE]
    ELSE LET w == waitForAsyncQueue(q, 1, [kind |-> "inputType", arg |-> h.type], -1)
         IN IF w.outcome = "item"
            THEN getInputsLoop(InputReceived(h, w.item[1]), w.queue)
            ELSE [handler |-> h, queue |-> q, request |-> TRUE]

\* getInputs from the loop head: the loop, then sendInputRequest
getInputsFrom(h) ==
    LET l == getInputsLoop(h, inputQueue)
        m == sendMessage(status, outbox,
                Out("RequestInput", <<[inputType |-> l.handler.type, minCount |-> l.handler.need]>>,
                    FALSE, 0, "handler"))
    IN /\ inputQueue' = l.queue
       /\ IF ~l.request
          THEN handler' = l.handler /\ outbox' = outbox
          ELSE /\ outbox' = m.outbox
               /\ handler' = IF m.sent THEN [l.handler EXCEPT !.pc = "sendInput"]
                             ELSE [l.handler EXCEPT !.pc = "ready", !.err = "notActive"]

\* ServiceContext.getInputs(type, count)
getInputs(type, count) ==
    /\ MayCall
    /\ getInputsFrom([handler EXCEPT !.pc = "getInputs", !.type = type, !.need = count,
                                     !.got = <<>>, !.err = "none"])
    /\ hist' = Called
    /\ UNCHANGED <<status, state, configProfiles, incomingMessageQueue, returnBuffer,
                   registered, runner, stored, lastReply>>

\* getInputs goes on after a wait gave it an input and more are needed
getInputsContinue ==
    /\ handler.pc = "getInputs"
    /\ getInputsFrom(handler)
    /\ UNCHANGED <<status, state, configProfiles, incomingMessageQueue, returnBuffer,
                   registered, runner, stored, lastReply, hist>>

\* ServiceContext.requestUserConfirmation / requestPayment, up to the send
request(type, pc) ==
    /\ MayCall
    /\ LET m == sendMessage(status, outbox, Out(type, <<>>, FALSE, hist.nextReq, "handler"))
       IN /\ outbox' = m.outbox
          /\ handler' = IF m.sent
                        THEN [handler EXCEPT !.pc = pc, !.reqId = hist.nextReq, !.err = "none"]
                        ELSE [handler EXCEPT !.reqId = hist.nextReq, !.err = "notActive"]
    /\ hist' = [Called EXCEPT !.nextReq = @ + 1]
    /\ UNCHANGED <<status, state, configProfiles, incomingMessageQueue, inputQueue,
                   returnBuffer, registered, runner, stored, lastReply>>

requestUserConfirmation == request("RequestUserConfirmation", "sendConfirm")

requestPayment == request("RequestPayment", "sendPayment")

\* ServiceContext.finish called by the handler, up to the send
finish ==
    /\ MayCall
    /\ LET f == sendReturnBuffer(status, returnBuffer, outbox, TRUE, "finish")
       IN /\ outbox' = f.outbox
          /\ returnBuffer' = f.returnBuffer
          /\ handler' = IF f.sent THEN [handler EXCEPT !.pc = "finishing", !.err = "none"]
                        ELSE [handler EXCEPT !.err = "notActive"]
    /\ hist' = Called
    /\ UNCHANGED <<status, state, configProfiles, incomingMessageQueue, inputQueue,
                   registered, runner, stored, lastReply>>

\* ServiceContext.suspend: the flush is started and not awaited, then the
\* status is set whatever it was.
suspend ==
    /\ MayCall
    /\ LET f == IF returnBuffer # <<>>
                THEN sendReturnBuffer(status, returnBuffer, outbox, FALSE, "suspend")
                ELSE [sent |-> FALSE, outbox |-> outbox, returnBuffer |-> returnBuffer]
       IN outbox' = f.outbox /\ returnBuffer' = f.returnBuffer
    /\ status' = "suspended"
    /\ hist' = Called
    /\ UNCHANGED <<state, configProfiles, incomingMessageQueue, inputQueue,
                   registered, handler, runner, stored, lastReply>>

\* the timer of the handler's pending wait elapses: the consumer is
\* deregistered and the call fails with its timeout error
waitTimeout ==
    /\ handler.pc \in {"waitInput", "waitConfirm", "waitPayment"}
    /\ handler' = [handler EXCEPT !.pc = "ready", !.err = "timeout"]
    /\ IF handler.pc = "waitInput"
       THEN /\ inputQueue' = removeAsyncQueueConsumer(inputQueue, 1)
            /\ UNCHANGED <<incomingMessageQueue, lastReply>>
       ELSE /\ incomingMessageQueue' = removeAsyncQueueConsumer(incomingMessageQueue, 1)
            /\ lastReply' = [kind |-> IF handler.pc = "waitConfirm" THEN "confirm" ELSE "payment",
                             reqId |-> handler.reqId, outcome |-> "timeout", reply |-> <<>>]
            /\ UNCHANGED inputQueue
    /\ UNCHANGED <<status, state, configProfiles, returnBuffer, registered, outbox,
                   runner, stored, hist>>

----------------------------------------------------------------------------
(* Serialization: ServiceContext.serialize and the constructor *)

\* ServiceContext.serialize()
serialize ==
    [status |-> status, configProfiles |-> configProfiles, state |-> state,
     messageQueue |-> incomingMessageQueue.items, inputQueue |-> inputQueue.items]

\* the fields of the context that serialize() reads (for comparison)
Fields(st, sta, cfg, mq, iq) ==
    [status |-> st, state |-> sta, configProfiles |-> cfg,
     incomingMessageQueue |-> mq, inputQueue |-> iq]

\* ServiceContext constructor with a serialized state: status, state and the
\* items of both queues are taken from it; configProfiles keeps its
\* initializer.
construct(ser) ==
    Fields(ser.status, ser.state, {},
           [createAsyncQueue EXCEPT !.items = ser.messageQueue],
           [createAsyncQueue EXCEPT !.items = ser.inputQueue])

----------------------------------------------------------------------------
(* Execution runner: packages/koa/src/lib/Service/ExecutionHandler.ts and  *)
(* HttpService.storeAndDisposeContext / deleteAndDisposeContext            *)

\* the handler returns normally; the runner's completion callback runs
handlerReturns ==
    /\ Ready
    /\ handler' = [handler EXCEPT !.pc = "returned"]
    /\ IF status = "suspended"
       THEN \* storeAndDisposeContext
            /\ stored' = [present |-> TRUE, snapshot |-> serialize,
                          orig |-> Fields(status, state, configProfiles,
                                          incomingMessageQueue, inputQueue)]
            /\ registered' = FALSE
            /\ incomingMessageQueue' = dispose(incomingMessageQueue).queue
            /\ runner' = "stored"
            /\ UNCHANGED <<outbox, returnBuffer>>
       ELSE IF status = "finished"
       THEN \* deleteAndDisposeContext
            /\ stored' = NoEntry
            /\ registered' = FALSE
            /\ incomingMessageQueue' =
                    IF registered THEN dispose(incomingMessageQueue).queue
                    ELSE incomingMessageQueue
            /\ runner' = "done"
            /\ UNCHANGED <<outbox, returnBuffer>>
       ELSE \* await ctx.finish()
            LET f == sendReturnBuffer(status, returnBuffer, outbox, TRUE, "runner")
            IN /\ outbox' = f.outbox
               /\ returnBuffer' = f.returnBuffer
               /\ runner' = IF f.sent THEN "finishing" ELSE "failed"
               /\ UNCHANGED <<stored, registered, incomingMessageQueue>>
    /\ UNCHANGED <<status, state, configProfiles, inputQueue, lastReply, hist>>

\* what a handler can throw: an Error with a name and a message, or a value
\* that is not an Error (text: its String form)
ThrownErrors ==
    {[isError |-> TRUE, name |-> "TypeError", text |-> "bad"],
     [isError |-> FALSE, name |-> "", text |-> "oops"]}

\* returnError that appends nothing
returnErrorDropped(buf, n, errorName, description) == buf

\* ServiceContext.returnError: append an Error item to the buffer
returnError(buf, n, errorName, description) ==
    Append(buf, Item(n, "Error", errorName, description))

\* the handler throws; the runner's failure callback runs: returnError,
\* finish() without await, deleteAndDisposeContext, onError
handlerThrows(err) ==
    /\ Ready
    /\ handler' = [handler EXCEPT !.pc = "threw"]
    /\ LET buf == IF err.isError
                  THEN returnError(returnBuffer, hist.items + 1, err.name, err.text)
                  ELSE returnError(returnBuffer, hist.items + 1, "UnexpectedError", err.text)
           f == IF status # "finished"
                THEN sendReturnBuffer(status, buf, outbox, TRUE, "runnerError")
                ELSE [sent |-> FALSE, outbox |-> outbox, returnBuffer |-> buf]
       IN outbox' = f.outbox /\ returnBuffer' = f.returnBuffer
    /\ stored' = NoEntry
    /\ registered' = FALSE
    /\ incomingMessageQueue' =
            IF registered THEN dispose(incomingMessageQueue).queue ELSE incomingMessageQueue
    /\ runner' = "done"
    /\ hist' = [hist EXCEPT !.items = @ + 1, !.onError = TRUE]
    /\ UNCHANGED <<status, state, configProfiles, inputQueue, lastReply>>

----------------------------------------------------------------------------
(* Completion of a call of the send-function (the transport answers) *)

InputPred(h) == [kind |-> "inputType", arg |-> h.type]

\* the predicate of a reply wait that expects the reqId after the request's
ReplyPredNextReqId(h) ==
    [kind |-> IF h.pc \in {"sendConfirm", "waitConfirm"} THEN "confirm" ELSE "payment",
     arg |-> h.reqId + 1]

ReplyPred(h) == [kind |-> IF h.pc \in {"sendConfirm", "waitConfirm"} THEN "confirm" ELSE "payment",
                 arg |-> h.reqId]

\* a Return was sent or failed: the continuation of sendReturnBuffer and of
\* its caller (finish of the handler, finish of the runner, or nobody)
returnCompletes(m, ok) ==
    /\ returnBuffer' = IF ok THEN returnBuffer ELSE returnBuffer \o m.items
    /\ status' = IF ok /\ m.close THEN "finished" ELSE status
    /\ handler' = IF m.by = "finish"
                  THEN [handler EXCEPT !.pc = "ready",
                                       !.err = IF ok THEN "none" ELSE "sendFailed"]
                  ELSE handler
    /\ runner' = IF m.by = "runner" THEN (IF ok THEN "done" ELSE "failed") ELSE runner
    /\ registered' = IF m.by = "runner" /\ ok THEN FALSE ELSE registered
    /\ stored' = IF m.by = "runner" /\ ok THEN NoEntry ELSE stored
    /\ incomingMessageQueue' =
            IF m.by = "runner" /\ ok /\ registered
            THEN dispose(incomingMessageQueue).queue ELSE incomingMessageQueue
    /\ UNCHANGED <<inputQueue, lastReply>>

\* the RequestInput of getInputs was sent or failed: isWaiting = true and
\* the loop waits with the timeout
requestInputCompletes(ok) ==
    /\ IF ~ok
       THEN /\ handler' = [handler EXCEPT !.pc = "ready", !.err = "sendFailed"]
            /\ UNCHANGED inputQueue
       ELSE LET w == waitForAsyncQueue(inputQueue, 1, InputPred(handler), 1)
            IN /\ inputQueue' = w.queue
               /\ handler' = IF w.outcome = "item" THEN InputReceived(handler, w.item[1])
                             ELSE [handler EXCEPT !.pc = "waitInput"]
    /\ UNCHANGED <<returnBuffer, status, runner, registered, stored, incomingMessageQueue,
                   lastReply>>

\* the RequestUserConfirmation / RequestPayment was sent or failed: the
\* handler waits on the message queue for the reply
requestCompletes(ok) ==
    /\ IF ~ok
       THEN /\ handler' = [handler EXCEPT !.pc = "ready", !.err = "sendFailed"]
            /\ UNCHANGED <<incomingMessageQueue, lastReply>>
       ELSE LET w == waitForAsyncQueue(incomingMessageQueue, 1, ReplyPred(handler), 1)
            IN /\ incomingMessageQueue' = w.queue
               /\ IF w.outcome = "item"
                  THEN /\ handler' = ReplyReceived(handler, w.item[1])
                       /\ lastReply' = ReplyOutcome(handler, w.item[1])
                  ELSE /\ handler' = [handler EXCEPT
                                !.pc = IF @ = "sendConfirm" THEN "waitConfirm" ELSE "waitPayment"]
                       /\ UNCHANGED lastReply
    /\ UNCHANGED <<returnBuffer, status, runner, registered, stored, inputQueue>>

sendCompletes(i, ok) ==
    /\ i \in 1..Len(outbox)
    /\ outbox[i].result = "pending"
    /\ ok \/ hist.fails < MaxSendFailures
    /\ outbox' = [outbox EXCEPT ![i].result = IF ok THEN "ok" ELSE "failed"]
    /\ hist' = [hist EXCEPT !.fails = IF ok THEN @ ELSE @ + 1]
    /\ CASE outbox[i].messageType = "Return" -> returnCompletes(outbox[i], ok)
         [] outbox[i].messageType = "RequestInput" -> requestInputCompletes(ok)
         [] OTHER -> requestCompletes(ok)
    /\ UNCHANGED <<state, configProfiles>>

----------------------------------------------------------------------------
(* One service context with its handler and runner: Spec *)

Init == QInitVars /\ CInitVars /\ SInitVars /\ RInitVars /\ IInitVars /\ NInitVars

Next ==
    \/ \E m \in IncomingMsgs : handleIncomingMessage(m) /\ UNCHANGED <<qvars, cvars, rvars, ivars, nvars>>
    \/ returnData /\ UNCHANGED <<qvars, cvars, rvars, ivars, nvars>>
    \/ setState /\ UNCHANGED <<qvars, cvars, rvars, ivars, nvars>>
    \/ \E c \in Counts : getInputs("a", c) /\ UNCHANGED <<qvars, cvars, rvars, ivars, nvars>>
    \/ getInputsContinue /\ UNCHANGED <<qvars, cvars, rvars, ivars, nvars>>
    \/ requestUserConfirmation /\ UNCHANGED <<qvars, cvars, rvars, ivars, nvars>>
    \/ requestPayment /\ UNCHANGED <<qvars, cvars, rvars, ivars, nvars>>
    \/ finish /\ UNCHANGED <<qvars, cvars, rvars, ivars, nvars>>
    \/ suspend /\ UNCHANGED <<qvars, cvars, rvars, ivars, nvars>>
    \/ waitTimeout /\ UNCHANGED <<qvars, cvars, rvars, ivars, nvars>>
    \/ handlerReturns /\ UNCHANGED <<qvars, cvars, rvars, ivars, nvars>>
    \/ \E err \in ThrownErrors : handlerThrows(err) /\ UNCHANGED <<qvars, cvars, rvars, ivars, nvars>>
    \/ \E i \in 1..Len(outbox), ok \in BOOLEAN : sendCompletes(i, ok) /\ UNCHANGED <<qvars, cvars, rvars, ivars, nvars>>

Spec == Init /\ [][Next]_vars

----------------------------------------------------------------------------
(* Claims about the service context *)

\* C1: once the status of a service context is Finished or Cancelled it
\* never changes again, whatever operation follows (incoming messages,
\* finish(), suspend(), cancel()).
C1_TerminalStatusNeverChanges ==
    [][(status \in {"finished", "cancelled"}) => (status' = status)]_vars

\* Sends the transport did not refuse, as positions of the outbox
Emitted == {i \in 1..Len(outbox) : outbox[i].result = "ok"}

\* C2: over the life of one service context at most one Return with
\* close=true is emitted and no outbound message of any kind is emitted
\* after it, also when finish() is reached through the runner.
C2_CloseReturnIsLast ==
    \A i \in Emitted :
        (outbox[i].messageType = "Return" /\ outbox[i].close) =>
            \A j \in Emitted : j <= i

\* Nothing can happen to the context any more: the handler and the runner
\* are through, no send is under way and the router cannot reach the context.
Quiescent ==
    /\ handler.pc \in {"returned", "threw"}
    /\ runner \in {"done", "stored"}
    /\ ~registered
    /\ \A i \in 1..Len(outbox) : outbox[i].result # "pending"

\* Emitted Return messages that carry the item with the given number
ReturnsWith(n) ==
    {i \in Emitted : /\ outbox[i].messageType = "Return"
                     /\ \E k \in 1..Len(outbox[i].items) : outbox[i].items[k].id = n}

\* C3: every item appended to the return buffer by returnData / returnError
\* ends up in exactly one emitted Return message, unless the context was
\* cancelled; stated for the runs that have come to rest.
C3_EveryItemInExactlyOneReturn ==
    (Quiescent /\ ~hist.cancelHandled) =>
        \A n \in 1..hist.items : Cardinality(ReturnsWith(n)) = 1

\* C4: requestUserConfirmation and requestPayment complete successfully only
\* with a reply of the expected type whose reqId equals the reqId of the
\* request they sent.
C4_ReplyMatchesRequest ==
    lastReply.outcome = "ok" =>
        /\ lastReply.reply[1].reqId = lastReply.reqId
        /\ lastReply.reply[1].messageType =
                (IF lastReply.kind = "confirm" THEN "ProvideUserConfirmation"
                 ELSE "AuthorizePayment")

\* C5: the send-function is invoked only while the status is Active (the
\* status a send sees is the one before the step or, for the flush at the
\* end of handleIncomingMessage, the one after it); once a Cancel has been
\* handled nothing is sent any more and a request fails as not active.
C5_SendOnlyWhenActive ==
    [][/\ (Len(outbox') > Len(outbox) => (status = "active" \/ status' = "active"))
       /\ (hist.cancelHandled => Len(outbox') = Len(outbox))
       /\ ((hist.cancelHandled /\ hist'.nextReq > hist.nextReq) =>
                (handler'.pc = "ready" /\ handler'.err = "notActive"))]_vars

\* C5 witness: a Cancel was handled and a later send attempt of the handler
\* failed as not active, with nothing sent after the Cancel.
C5_Witness ==
    /\ hist.cancelHandled
    /\ status = "cancelled"
    /\ handler.pc = "ready"
    /\ handler.err = "notActive"

\* C6: constructing a service context from serialize() of another yields an
\* equivalent one: status, State, stored configProfiles, message queue and
\* input queue are equal.
C6_SerializeRoundTrip ==
    stored.present => construct(stored.snapshot) = stored.orig

\* C7: when an Active context handles a Cancel, every wait pending at that
\* moment (getInputs, requestUserConfirmation, requestPayment) fails with the
\* cancelled error, onCancel is emitted and the status becomes Cancelled.
C7_CancelFailsPendingWaits ==
    [][(status = "active" /\ status' = "cancelled") =>
            /\ hist'.onCancel
            /\ (handler.pc \in {"waitInput", "waitConfirm", "waitPayment"} =>
                    (handler'.pc = "ready" /\ handler'.err = "cancelled"))]_vars

\* C14: getInputs(inputType, count) returns values taken only from inputs
\* whose inputType equals the requested type; inputs of other types stay in
\* the input buffer.
C14_GetInputsReturnsRequestedType ==
    \A i \in 1..Len(handler.got) : handler.got[i].inputType = handler.type

\* an Invoke that passes validation: the required profile is present and
\* valid, every input is of a declared type and fits its schema
ValidInvoke(m) ==
    /\ m.profile = "valid"
    /\ \A i \in 1..Len(m.inputs) : ValidInput(m.inputs[i])

\* C15: an Invoke that fails validation is rejected and does not mutate the
\* service context: status stays Initialized and the stored configProfiles,
\* the input buffer and the message queue are unchanged.
C15_InvalidInvokeMutatesNothing ==
    [][\A m \in InvokeMsgs :
          (status = "initialized" /\ ~ValidInvoke(m) /\ handleIncomingMessage(m)) =>
              /\ hist'.steps = hist.steps
              /\ status' = "initialized"
              /\ configProfiles' = configProfiles
              /\ inputQueue' = inputQueue
              /\ incomingMessageQueue' = incomingMessageQueue]_vars

\* the admission table: the messages a context in its present status rejects
MustReject(m) ==
    \/ (m.messageType = "Invoke" /\ status # "initialized")
    \/ (m.messageType # "Invoke" /\ status # "active")

\* C16: an Initialized context accepts only Invoke; an Active context
\* rejects Invoke; a context in any non-Active status rejects every
\* non-Invoke message; a rejected message changes neither the status nor
\* either queue.  (A handleIncomingMessage step counts in hist.steps exactly
\* when the message is accepted: no accepting step handles a message the
\* table rejects, and no rejecting step changes the status or a queue.)
C16_DispatchAdmission ==
    [][/\ (hist'.steps # hist.steps) =>
            \A m \in IncomingMsgs : MustReject(m) => ~handleIncomingMessage(m)
       /\ (/\ hist'.steps = hist.steps
           /\ \/ status' # status
              \/ inputQueue' # inputQueue
              \/ incomingMessageQueue' # incomingMessageQueue) =>
            \A m \in IncomingMsgs : ~handleIncomingMessage(m)]_vars

\* C16 witness: a context that had been suspended by its handler refused a
\* message because of its status, and is still Suspended with its queues.
C16_Witness ==
    /\ hist.refused
    /\ status = "suspended"
    /\ registered

\* C17: a valid Invoke handled by an Initialized context stores the config
\* profiles, moves the status to Active, appends each input to the input
\* buffer in list order and, if userConfirmation is present, appends one
\* synthetic ProvideUserConfirmation with empty reqId to the message queue.
C17_ValidInvokeActivates ==
    [][\A m \in InvokeMsgs :
          (status = "initialized" /\ ValidInvoke(m) /\ handleIncomingMessage(m)) =>
              /\ status' = "active"
              /\ configProfiles' = configProfiles \cup {ReqProfile}
              /\ inputQueue'.items = inputQueue.items \o m.inputs
              /\ incomingMessageQueue'.items =
                    incomingMessageQueue.items \o
                        (IF m.userConfirmation THEN <<SyntheticConfirmation>> ELSE <<>>)]_vars

\* C17 witness: right after a valid Invoke with two inputs and a user
\* confirmation the context is Active with both inputs buffered in order,
\* the synthetic confirmation queued and the profile stored.
C17_Witness ==
    /\ status = "active"
    /\ hist.steps = 1
    /\ configProfiles = {ReqProfile}
    /\ inputQueue.items = <<In("b", 1), In("a", 2)>>
    /\ incomingMessageQueue.items = <<SyntheticConfirmation>>

\* C24: when the handler fails while the context is Active, an Error item
\* with the error's name and message is appended to the return buffer, a
\* Return with close=true holding the buffer with that item is handed to the
\* transport, the context leaves the manager and the store and is disposed,
\* and the service's onError is emitted.
C24_HandlerFailureClosesAndTearsDown ==
    [][\A err \in ThrownErrors :
          (status = "active" /\ Ready /\ handlerThrows(err)) =>
              LET item == Item(hist.items + 1, "Error",
                               IF err.isError THEN err.name ELSE "UnexpectedError", err.text)
              IN /\ Len(outbox') = Len(outbox) + 1
                 /\ outbox'[Len(outbox')].messageType = "Return"
                 /\ outbox'[Len(outbox')].close
                 /\ outbox'[Len(outbox')].items = Append(returnBuffer, item)
                 /\ returnBuffer' = <<>>
                 /\ ~registered'
                 /\ stored' = NoEntry
                 /\ incomingMessageQueue' = createAsyncQueue
                 /\ hist'.onError]_vars

\* the handler threw a TypeError after one returnData; the closing Return
\* with both items went out and the context is gone
C24_Witness ==
    /\ handler.pc = "threw"
    /\ hist.onError
    /\ ~registered
    /\ status = "finished"
    /\ \E i \in 1..Len(outbox) :
            /\ outbox[i].by = "runnerError"
            /\ outbox[i].close
            /\ outbox[i].result = "ok"
            /\ Len(outbox[i].items) = 2
            /\ outbox[i].items[2] = Item(2, "Error", "TypeError", "bad")

\* C25: once the handler has returned with a status other than Suspended
\* and the runner's finish() (if any) has settled, sent or failed, the
\* context is out of the manager and its store entry is deleted.
C25_RunnerAlwaysTearsDown ==
    (handler.pc = "returned" /\ runner \in {"done", "failed"}) =>
        (~registered /\ stored = NoEntry)

\* C26: the items of the Return messages of the context that were not
\* refused by the transport, read in the order the messages were handed to
\* it and within a message front to back, are in the order of the
\* returnData / returnError calls that produced them (increasing id).
C26_ReturnItemsKeepCallOrder ==
    \A i, j \in 1..Len(outbox) :
        (/\ i <= j
         /\ outbox[i].messageType = "Return" /\ outbox[i].result # "failed"
         /\ outbox[j].messageType = "Return" /\ outbox[j].result # "failed") =>
            \A a \in 1..Len(outbox[i].items), b \in 1..Len(outbox[j].items) :
                (i < j \/ a < b) => outbox[i].items[a].id < outbox[j].items[b].id

\* C27: the outcome of requestPayment is decided by the reply that carries
\* the reqId of the RequestPayment it sent: it returns the authorization for
\* an AuthorizePayment, fails as rejected for a RejectPayment, and fails with
\* the timeout when no reply was taken.
C27_PaymentDecidedByMatchingReply ==
    lastReply.kind = "payment" =>
        CASE lastReply.outcome = "ok" ->
                /\ lastReply.reply[1].messageType = "AuthorizePayment"
                /\ lastReply.reply[1].reqId = lastReply.reqId
          [] lastReply.outcome = "rejected" ->
                /\ lastReply.reply[1].messageType = "RejectPayment"
                /\ lastReply.reply[1].reqId = lastReply.reqId
          [] OTHER -> lastReply.reply = <<>>

\* the step handed a RequestInput to the transport
RequestInputSent ==
    /\ Len(outbox') = Len(outbox) + 1
    /\ outbox'[Len(outbox')].messageType = "RequestInput"

\* the RequestInput of the step asks for n inputs of type a, and the input
\* buffer holds no input of that type
RequestInputFor(n) ==
    /\ n > 0
    /\ outbox'[Len(outbox')].items = <<[inputType |-> "a", minCount |-> n]>>
    /\ \A k \in 1..Len(inputQueue'.items) : inputQueue'.items[k].inputType # "a"

C30_FailedPostIsSentAgain ==
    [][\A i \in 1..Len(outbox) :
            (outbox[i].result = "pending" /\ sendCompletes(i, FALSE)) =>
                \E j \in 1..Len(outbox') :
                    /\ outbox'[j].result = "pending"
                    /\ outbox'[j].messageType = outbox[i].messageType
                    /\ outbox'[j].items = outbox[i].items]_vars

\* the kinds of item the two queues of a service context are meant for
IsCommandInput(item) == DOMAIN item = {"inputType", "value"}
IsControlMessage(item) ==
    /\ "messageType" \in DOMAIN item
    /\ item.messageType \in {"ProvideUserConfirmation", "AuthorizePayment", "RejectPayment"}

\* C32: in every reachable state of a service context the input buffer
\* holds only command inputs and the message queue holds only
\* ProvideUserConfirmation, AuthorizePayment and RejectPayment messages; the
\* same holds for the two lists of a stored snapshot.
C32_QueuesDisjointByKind ==
    /\ \A k \in 1..Len(inputQueue.items) : IsCommandInput(inputQueue.items[k])
    /\ \A k \in 1..Len(incomingMessageQueue.items) :
            IsControlMessage(incomingMessageQueue.items[k])
    /\ stored.present =>
            /\ \A k \in 1..Len(stored.snapshot.inputQueue) :
                    IsCommandInput(stored.snapshot.inputQueue[k])
            /\ \A k \in 1..Len(stored.snapshot.messageQueue) :
                    IsControlMessage(stored.snapshot.messageQueue[k])

\* inputs wait in the input buffer while a payment reply and the synthetic
\* confirmation wait in the message queue
C32_Witness ==
    /\ inputQueue.items = <<In("b", 1), In("a", 2)>>
    /\ Len(incomingMessageQueue.items) = 2
    /\ incomingMessageQueue.items[1] = SyntheticConfirmation
    /\ incomingMessageQueue.items[2].messageType = "AuthorizePayment"

\* position of the input of the list that a getInputs waiting at this moment
\* takes (the first one of its type), 0 when nothing waits or none fits
TakenByWaiter(inputs) ==
    IF handler.pc = "waitInput" /\ \E i \in 1..Len(inputs) : inputs[i].inputType = handler.type
    THEN CHOOSE i \in 1..Len(inputs) :
            /\ inputs[i].inputType = handler.type
            /\ \A j \in 1..(i - 1) : inputs[j].inputType # handler.type
    ELSE 0

\* C33: a ProvideInput handled by an Active context is all-or-nothing: if
\* every input is of a declared type and fits its schema, the message is
\* accepted, all its inputs are added to the input buffer in list order (the
\* one a waiting getInputs takes goes to it, the others are appended) and
\* onMessage is emitted; if any input is invalid, the message is rejected and
\* none of its inputs is added.
C33_ProvideInputAllOrNothing ==
    [][\A m \in ProvideInputMsgs :
          (status = "active" /\ registered /\ handleIncomingMessage(m)) =>
              IF \A i \in 1..Len(m.inputs) :
                    m.inputs[i].inputType \in InputTypes /\ m.inputs[i].value > 0
              THEN LET t == TakenByWaiter(m.inputs)
                   IN /\ hist'.steps = hist.steps + 1
                      /\ hist'.onMessage
                      /\ inputQueue'.items =
                            inputQueue.items \o
                                (IF t = 0 THEN m.inputs ELSE RemoveAt(m.inputs, t))
                      /\ t # 0 => handler'.got = Append(handler.got, m.inputs[t])
                      /\ t = 0 => handler' = handler
              ELSE /\ hist'.steps = hist.steps
                   /\ inputQueue' = inputQueue
                   /\ handler' = handler
                   /\ hist'.onMessage = hist.onMessage]_vars

\* a ProvideInput with two inputs was accepted while getInputs was waiting:
\* the waiting call took the input of its type, the other one is buffered
C33_Witness ==
    /\ status = "active"
    /\ hist.onMessage
    /\ handler.got = <<In("a", 2)>>
    /\ inputQueue.items = <<In("b", 1)>>
    /\ \E i \in 1..Len(outbox) : outbox[i].messageType = "RequestInput"

\* C34: after every dispatch of an incoming message, accepted or rejected,
\* if the status is then Active and the return buffer is not empty, one
\* Return with close=false carrying all buffered items is handed to the
\* transport and the buffer is emptied; if the status is not Active or the
\* buffer is empty, the dispatch sends nothing and leaves the buffer.
C34_DispatchFlushesReturnBuffer ==
    [][(/\ registered
        /\ state' = state /\ runner' = runner
        /\ hist'.items = hist.items /\ hist'.nextReq = hist.nextReq
        /\ hist'.fails = hist.fails
        /\ handler'.pc \notin {"returned", "threw"}) =>
       \A m \in IncomingMsgs :
          handleIncomingMessage(m) =>
              IF status' = "active" /\ returnBuffer # <<>>
              THEN /\ outbox' = Append(outbox,
                        [messageType |-> "Return", items |-> returnBuffer, close |-> FALSE,
                         reqId |-> 0, by |-> "dispatch", result |-> "pending"])
                   /\ returnBuffer' = <<>>
              ELSE /\ outbox' = outbox
                   /\ returnBuffer' = returnBuffer]_vars

\* two items were buffered when a message was dispatched: one Return with
\* close=false took both to the agent
C34_Witness ==
    /\ returnBuffer = <<>>
    /\ \E i \in 1..Len(outbox) :
            /\ outbox[i].by = "dispatch"
            /\ outbox[i].messageType = "Return"
            /\ ~outbox[i].close
            /\ Len(outbox[i].items) = 2
            /\ outbox[i].result = "ok"

----------------------------------------------------------------------------
(* The user-confirmation flow: SpecFlow                                    *)
(* (packages/core/src/tests/Communication.spec.ts, "Should request and     *)
(* provide user confirmation"): the handler calls requestUserConfirmation, *)
(* returnData once and finish; the agent invokes the command and answers   *)
(* the RequestUserConfirmation it sees; the transport delivers.            *)

\* returnData and finish of the handler run in one turn of the event loop:
\* no message is handled while the item waits in the buffer
FlowBetweenTurns == returnBuffer = <<>>

\* the agent invokes the command (an Invoke that comes again is refused)
FlowInvoke ==
    /\ FlowBetweenTurns
    /\ \E m \in InvokeMsgs : handleIncomingMessage(m)
    /\ UNCHANGED <<qvars, cvars, rvars, ivars, nvars>>

\* `await ctx.requestUserConfirmation("Test")`
FlowRequest ==
    /\ hist.nextReq = 1
    /\ requestUserConfirmation
    /\ UNCHANGED <<qvars, cvars, rvars, ivars, nvars>>

\* a call of the send-function returns
FlowTransport ==
    /\ \E i \in 1..Len(outbox) : sendCompletes(i, TRUE)
    /\ UNCHANGED <<qvars, cvars, rvars, ivars, nvars>>

\* the answer of the agent to the request in position i of the outbox
FlowAnswer(i) == [messageType |-> "ProvideUserConfirmation", reqId |-> outbox[i].reqId]

\* the agent's provideUserConfirmation(msg) for the RequestUserConfirmation
\* it was sent, once, while the command runs
FlowAgentConfirms ==
    /\ \E i \in 1..Len(outbox) :
        /\ outbox[i].messageType = "RequestUserConfirmation"
        /\ lastReply.reply # <<FlowAnswer(i)>>
        /\ FlowAnswer(i) \notin Range(incomingMessageQueue.items)
        /\ status = "active"
        /\ FlowBetweenTurns
        /\ handleIncomingMessage(FlowAnswer(i))
    /\ UNCHANGED <<qvars, cvars, rvars, ivars, nvars>>

\* `ctx.returnData("Greetings", ..)` once the confirmation has returned
FlowReturnData ==
    /\ hist.nextReq = 2
    /\ handler.err = "none"
    /\ hist.items = 0
    /\ returnData
    /\ UNCHANGED <<qvars, cvars, rvars, ivars, nvars>>

\* `await ctx.finish()`
FlowFinish ==
    /\ returnBuffer # <<>>
    /\ finish
    /\ UNCHANGED <<qvars, cvars, rvars, ivars, nvars>>

\* the handler returns after finish() has returned
FlowHandlerReturns ==
    /\ status = "finished"
    /\ handlerReturns
    /\ UNCHANGED <<qvars, cvars, rvars, ivars, nvars>>

FlowInit ==
    /\ QInitVars /\ CInitVars /\ RInitVars /\ IInitVars /\ NInitVars
    /\ SInitContext
    /\ hist = [InitHist EXCEPT !.budget = MaxFlowSteps]

FlowNext ==
    \/ FlowInvoke
    \/ FlowRequest
    \/ FlowTransport
    \/ FlowAgentConfirms
    \/ FlowReturnData
    \/ FlowFinish
    \/ FlowHandlerReturns

\* the handler runs on when it can, every send is answered, and the agent
\* answers the request it has seen
FlowFairness ==
    /\ WF_vars(FlowRequest)
    /\ WF_vars(FlowTransport)
    /\ WF_vars(FlowAgentConfirms)
    /\ WF_vars(FlowReturnData)
    /\ WF_vars(FlowFinish)
    /\ WF_vars(FlowHandlerReturns)

SpecFlow == FlowInit /\ [][FlowNext]_vars /\ FlowFairness

\* the Return messages handed to the transport, as positions of the outbox
ReturnsSent == {i \in 1..Len(outbox) : outbox[i].messageType = "Return"}

\* the wait returned a confirmation and the agent got one Return, closing,
\* with the one item
FlowDone ==
    /\ lastReply.kind = "confirm"
    /\ lastReply.outcome = "ok"
    /\ status = "finished"
    /\ \E i \in ReturnsSent :
            /\ ReturnsSent = {i}
            /\ outbox[i].close
            /\ outbox[i].result = "ok"
            /\ outbox[i].items = <<Item(1, "Output", "out", "data")>>

\* C29: in the user-confirmation flow, once the handler has called
\* requestUserConfirmation its wait eventually completes and the agent
\* observes exactly one Return, with close=true and the one item; no other
\* Return is ever sent.
C29_ConfirmationFlowCompletes ==
    /\ (handler.pc \in {"sendConfirm", "waitConfirm"}) ~> FlowDone
    /\ [](Cardinality(ReturnsSent) <= 1)

\* the agent's answer with the reqId of the request completed the wait, and
\* the flow is through
C29_Witness ==
    /\ FlowDone
    /\ lastReply.reqId = 1
    /\ lastReply.reply = <<[messageType |-> "ProvideUserConfirmation", reqId |-> 1]>>
    /\ runner = "done"

----------------------------------------------------------------------------
(* Channel route of the koa service for one suspended channel: SpecRouter  *)
(* packages/koa/src/lib/Service/ServiceRouter.ts, Service.ts,              *)
(* ExecutionHandler.ts                                                      *)

RouteMsgs == {"ProvideInput", "Cancel"}

\* a restored context that keeps the stored status Suspended
NewContextSuspended == [status |-> "suspended", disposed |-> FALSE, handler |-> "notEntered"]

\* HttpService.restoreContext: the context constructed from the store entry,
\* its status Suspended replaced by Active
NewContext == [status |-> "active", disposed |-> FALSE, handler |-> "notEntered"]

\* HttpService.deleteAndDisposeContext: the context the manager holds under
\* the channel id is removed and disposed, the store entry is deleted.
deleteAndDisposeContext(ctxs) ==
    IF rManager = 0 THEN ctxs ELSE [ctxs EXCEPT ![rManager].disposed = TRUE]

\* the route up to `await service.restoreContext(..)`: getLocalContext.
\* The request carries message m; a: its bearer token is the channel's
\* serviceChannelToken.  A ProvideInput carries one input, named by the
\* number of its request.
RouteLookup(r, m, a) ==
    /\ rReq[r].pc = "new"
    /\ \A q \in 1..(r - 1) : rReq[q].pc # "new"
    /\ rReq' = [rReq EXCEPT ![r] =
            IF rManager # 0
            THEN [pc |-> "dispatch", ctx |-> rManager, wasRestored |-> FALSE, msg |-> m,
                  auth |-> a]
            ELSE [pc |-> "storeGet", ctx |-> 0, wasRestored |-> TRUE, msg |-> m,
                  auth |-> a]]
    /\ UNCHANGED <<rStore, rManager, rCtx, rCount, rQueue, rSnapshot, rTaken>>

\* the store answers: restoreContext constructs a context from the entry
\* (Suspended becomes Active, the input queue holds the serialized inputs)
\* and handleContextCreated adds it to the manager
RouteRestore(r) ==
    /\ rReq[r].pc = "storeGet"
    /\ IF ~rStore
       THEN /\ rReq' = [rReq EXCEPT ![r].pc = "notFound"]
            /\ UNCHANGED <<rManager, rCtx, rQueue>>
       ELSE /\ rCtx' = Append(rCtx, NewContext)
            /\ rQueue' = Append(rQueue, rSnapshot)
            /\ rManager' = Len(rCtx) + 1
            /\ rReq' = [rReq EXCEPT ![r].pc = "dispatch", ![r].ctx = Len(rCtx) + 1]
    /\ UNCHANGED <<rStore, rCount, rSnapshot, rTaken>>

\* the authorization check, `await serviceContext.handleIncomingMessage(message)`
\* and, for a restored context, executeCommandHandler
RouteDispatch(r) ==
    /\ rReq[r].pc = "dispatch"
    /\ LET c == rReq[r].ctx
           isCancel == rReq[r].msg = "Cancel"
           enters == rReq[r].wasRestored
           afterMsg == IF isCancel
                       THEN [deleteAndDisposeContext(rCtx) EXCEPT ![c].status = "cancelled"]
                       ELSE rCtx
       IN IF ~rReq[r].auth
          THEN /\ rReq' = [rReq EXCEPT ![r].pc = "unauthorized"]
               /\ UNCHANGED <<rStore, rManager, rCtx, rCount, rQueue, rSnapshot>>
          ELSE IF rCtx[c].status # "active"
          THEN /\ rReq' = [rReq EXCEPT ![r].pc = "rejected"]
               /\ UNCHANGED <<rStore, rManager, rCtx, rCount, rQueue, rSnapshot>>
          ELSE /\ rReq' = [rReq EXCEPT ![r].pc = "done"]
               /\ rCtx' = IF enters THEN [afterMsg EXCEPT ![c].handler = "running"]
                          ELSE afterMsg
               /\ rQueue' = IF isCancel THEN rQueue
                            ELSE [rQueue EXCEPT ![c] = Append(@, r)]
               /\ rManager' = IF isCancel THEN 0 ELSE rManager
               /\ rStore' = IF isCancel THEN FALSE ELSE rStore
               /\ rSnapshot' = IF isCancel THEN <<>> ELSE rSnapshot
               /\ rCount' = IF enters THEN [rCount EXCEPT !.entered = @ + 1] ELSE rCount
    /\ UNCHANGED rTaken

\* the handler of a context calls getInputs and takes the first input of the
\* context's input queue
HandlerTakesInput(c) ==
    /\ c \in 1..Len(rCtx)
    /\ rCtx[c].handler = "running"
    /\ rQueue[c] # <<>>
    /\ rQueue' = [rQueue EXCEPT ![c] = Tail(@)]
    /\ rTaken' = rTaken \cup {Head(rQueue[c])}
    /\ UNCHANGED <<rStore, rManager, rCtx, rReq, rCount, rSnapshot>>

\* the handler calls suspend() and returns: storeAndDisposeContext
HandlerSuspends(c) ==
    /\ c \in 1..Len(rCtx)
    /\ rCtx[c].handler = "running"
    /\ rCount.suspensions < MaxSuspensions
    /\ rCtx' = [rCtx EXCEPT ![c] = [status |-> "suspended", disposed |-> TRUE,
                                    handler |-> "returned"]]
    /\ rManager' = 0
    /\ rStore' = TRUE
    /\ rSnapshot' = rQueue[c]
    /\ rCount' = [rCount EXCEPT !.suspensions = @ + 1]
    /\ UNCHANGED <<rReq, rQueue, rTaken>>

\* the handler returns without suspending: the runner calls finish() and
\* deleteAndDisposeContext; finish() throws when the context is not Active
HandlerFinishes(c) ==
    /\ c \in 1..Len(rCtx)
    /\ rCtx[c].handler = "running"
    /\ IF rCtx[c].status = "active"
       THEN /\ rCtx' = [deleteAndDisposeContext(rCtx) EXCEPT
                            ![c].status = "finished", ![c].handler = "returned"]
            /\ rManager' = 0
            /\ rStore' = FALSE
            /\ rSnapshot' = <<>>
       ELSE /\ rCtx' = [rCtx EXCEPT ![c].handler = "returned"]
            /\ UNCHANGED <<rManager, rStore, rSnapshot>>
    /\ UNCHANGED <<rReq, rCount, rQueue, rTaken>>

RouterInit == QInitVars /\ CInitVars /\ SInitVars /\ RInitVars /\ IInitVars /\ NInitVars

RouterNext ==
    \/ \E r \in 1..MaxRequests, m \in RouteMsgs, a \in BOOLEAN :
            RouteLookup(r, m, a) /\ UNCHANGED <<qvars, cvars, svars, ivars, nvars>>
    \/ \E r \in 1..MaxRequests : RouteRestore(r) /\ UNCHANGED <<qvars, cvars, svars, ivars, nvars>>
    \/ \E r \in 1..MaxRequests : RouteDispatch(r) /\ UNCHANGED <<qvars, cvars, svars, ivars, nvars>>
    \/ \E c \in 1..MaxRequests : HandlerSuspends(c) /\ UNCHANGED <<qvars, cvars, svars, ivars, nvars>>
    \/ \E c \in 1..MaxRequests : HandlerFinishes(c) /\ UNCHANGED <<qvars, cvars, svars, ivars, nvars>>
    \/ \E c \in 1..MaxRequests : HandlerTakesInput(c) /\ UNCHANGED <<qvars, cvars, svars, ivars, nvars>>

SpecRouter == RouterInit /\ [][RouterNext]_vars

\* C23: when the handler suspends, the runner stores the context under the
\* channel id and disposes the in-memory context; a request that then finds
\* the channel only in the store restores a context with status Active into
\* the manager, and, its token being the channel's, is dispatched to that
\* context and the handler is entered (a context that a Cancel has reached
\* in the meantime refuses the message).
C23_SuspendStoresAndNextMessageRestores ==
    [][/\ \A c \in 1..MaxRequests :
            HandlerSuspends(c) =>
                /\ rStore'
                /\ rManager' = 0
                /\ rCtx'[c].disposed
                /\ rCtx'[c].status = "suspended"
       /\ \A r \in 1..MaxRequests :
            (rReq[r].pc = "storeGet" /\ rStore /\ RouteRestore(r)) =>
                /\ Len(rCtx') = Len(rCtx) + 1
                /\ rReq'[r].ctx = Len(rCtx')
                /\ rManager' = rReq'[r].ctx
                /\ rCtx'[rReq'[r].ctx] = [status |-> "active", disposed |-> FALSE,
                                          handler |-> "notEntered"]
                /\ rReq'[r].pc = "dispatch"
       /\ \A r \in 1..MaxRequests :
            (/\ rReq[r].pc = "dispatch"
             /\ rReq[r].wasRestored
             /\ rReq[r].auth
             /\ rCtx[rReq[r].ctx].status = "active"
             /\ RouteDispatch(r)) =>
                /\ rReq'[r].pc = "done"
                /\ rCtx'[rReq[r].ctx].handler = "running"
                /\ rCount'.entered = rCount.entered + 1]_vars

\* the channel was suspended a second time and restored again: the handler
\* runs in the context restored after the second suspension
C23_Witness ==
    /\ rCount.suspensions = 2
    /\ rCount.entered = 2
    /\ Len(rCtx) = 2
    /\ rCtx[1] = [status |-> "suspended", disposed |-> TRUE, handler |-> "returned"]
    /\ rCtx[2] = [status |-> "active", disposed |-> FALSE, handler |-> "running"]
    /\ rManager = 2

\* contexts of the channel that are in memory and not disposed
LiveContexts == {c \in 1..Len(rCtx) : ~rCtx[c].disposed}

\* C8: at any time at most one live (in-memory, not disposed) service context
\* exists per service channel id, also when several messages for the same
\* suspended channel arrive concurrently; the handler is re-entered at most
\* once per suspension.
C8_OneLiveContextPerChannel ==
    /\ Cardinality(LiveContexts) <= 1
    /\ rCount.entered <= rCount.suspensions

\* C38: the runner starts a command handler only on a context whose status
\* is Active: whenever a step enters the handler of a context, that context
\* is Active after the step, so a restoring Cancel or a rejected dispatch
\* does not execute the handler.
C38_HandlerStartsOnlyOnActiveContext ==
    [][\A c \in 1..Len(rCtx) :
            (rCtx[c].handler # "running" /\ rCtx'[c].handler = "running") =>
                rCtx'[c].status = "active"]_vars

\* C37: a channel request whose bearer token is not the channel's service
\* token has no effect on service state: no step of such a request changes
\* the store, the manager, the contexts, their queues or the handler count.
C37_UnauthorizedRequestHasNoEffect ==
    [][\A r \in 1..MaxRequests :
            (~rReq'[r].auth /\ rReq'[r] # rReq[r]) =>
                UNCHANGED <<rStore, rManager, rCtx, rCount, rQueue, rSnapshot, rTaken>>]_vars

\* inputs of ProvideInput messages the channel route accepted
AcceptedInputs ==
    {r \in 1..MaxRequests : rReq[r].pc = "done" /\ rReq[r].msg = "ProvideInput"}

\* inputs a handler of the channel can still get: queued in a live context,
\* or in the serialized state the store holds for the channel
AvailableInputs ==
    UNION {{rQueue[c][i] : i \in 1..Len(rQueue[c])} : c \in LiveContexts}
    \cup (IF rStore THEN {rSnapshot[i] : i \in 1..Len(rSnapshot)} ELSE {})

\* the channel has ended: a Cancel was dispatched or a handler finished
ChannelEnded ==
    \/ \E r \in 1..MaxRequests : rReq[r].pc = "done" /\ rReq[r].msg = "Cancel"
    \/ \E c \in 1..Len(rCtx) : rCtx[c].status = "finished"

\* C40: no accepted message is lost across suspend and restore: while the
\* channel has not ended, every accepted input that no handler has taken is
\* in the queue of a live context or in the stored serialized state.
C40_NoAcceptedInputLost ==
    ~ChannelEnded => (AcceptedInputs \ rTaken) \subseteq AvailableInputs

----------------------------------------------------------------------------
(* Invoke route of the koa service: SpecInvoke                             *)
(* packages/koa/src/lib/Service/ServiceRouter.ts (POST /invoke/:command),  *)
(* Shared/ProtocolHelpers.ts (checkProtocolVersion, handleProtocolErrors)  *)

\* The value of the x-asmv-protocol-version header: absent (or empty), or a
\* text read as its leading dot-separated numbers (none, when the text holds
\* no number) and whether a pre-release tag follows them.
NoHeader == [present |-> FALSE, nums |-> <<>>, pre |-> FALSE]
VersionHeaders ==
    {NoHeader} \cup
    {[present |-> TRUE, nums |-> n, pre |-> FALSE] : n \in {<<>>, <<1>>, <<2>>}} \cup
    {[present |-> TRUE, nums |-> n, pre |-> p] :
        n \in {<<1, 0, 0>>, <<1, 2, 0>>, <<2, 0, 0>>, <<0, 9, 0>>}, p \in BOOLEAN}

\* semver coerce: the first number of the text is the major, the numbers
\* that follow it after a dot are minor and patch (0 when absent), anything
\* after them is dropped; a text without a number gives null (<<>>)
coerce(h) ==
    IF h.nums = <<>>
    THEN <<>>
    ELSE <<[major |-> h.nums[1],
            minor |-> IF Len(h.nums) >= 2 THEN h.nums[2] ELSE 0,
            patch |-> IF Len(h.nums) >= 3 THEN h.nums[3] ELSE 0]>>

\* satisfies(version, "1.x") for a coerced version
satisfies(v) == v.major = 1

\* checkProtocolVersion: the error it throws ("none": next() is called)
checkProtocolVersion(h) ==
    IF ~h.present THEN "InvalidRequest"
    ELSE IF coerce(h) = <<>> THEN "InvalidRequest"
    ELSE IF ~satisfies(coerce(h)[1]) THEN "VersionNotSupported"
    ELSE "none"

Commands == {"echo"}        \* the commands the service defines

\* an invoke request: the version header, whether the client-channel headers
\* are there, the command of the path, whether the body is an Invoke by the
\* schema, and whether the context's validation accepts that Invoke
InvokeRequests ==
    [version : VersionHeaders, clientHeaders : BOOLEAN, command : {"echo", "nope"},
     body : BOOLEAN, valid : BOOLEAN]

\* the httpStatus of the error classes of Http/HttpTypes.ts
httpStatus(errorName) ==
    CASE errorName = "none" -> 204
      [] errorName = "CommandNotFound" -> 404
      [] OTHER -> 400

\* HttpService.createContext: a context with status Initialized is
\* constructed and handleContextCreated adds it to the context manager
createContext == [status |-> "initialized", registered |-> TRUE, disposed |-> FALSE,
                  handler |-> "notEntered"]

\* the error the invoke route ends with before it creates a context
\* ("none": it goes on to createContext)
RefusedBeforeContext(req) ==
    IF checkProtocolVersion(req.version) # "none" THEN checkProtocolVersion(req.version)
    ELSE IF ~req.clientHeaders THEN "InvalidRequest"
    ELSE IF req.command \notin Commands THEN "CommandNotFound"
    ELSE IF ~req.body THEN "InvalidRequest"
    ELSE "none"

\* one request of POST /invoke/:commandName, from the middlewares to the
\* response written by the route or by handleProtocolErrors
InvokeRoute(req) ==
    /\ Len(nLog) < MaxInvokes
    /\ LET early == RefusedBeforeContext(req)
           \* handleIncomingMessage(Invoke) rejects with InvalidMessage, which
           \* handleProtocolErrors turns into InvalidRequest
           err == IF early # "none" THEN early
                  ELSE IF ~req.valid THEN "InvalidRequest"
                  ELSE "none"
           ctx == IF req.valid
                  THEN [createContext EXCEPT !.status = "active", !.handler = "running"]
                  ELSE createContext
       IN /\ nCtx' = IF early # "none" THEN nCtx ELSE Append(nCtx, ctx)
          /\ nLog' = Append(nLog, [req |-> req, errorName |-> err,
                                   httpStatus |-> httpStatus(err),
                                   ctx |-> IF early # "none" THEN 0 ELSE Len(nCtx) + 1])

\* the handler of a context returns: the runner sends the closing Return and
\* calls deleteAndDisposeContext
InvokedHandlerReturns(c) ==
    /\ c \in 1..Len(nCtx)
    /\ nCtx[c].handler = "running"
    /\ nCtx' = [nCtx EXCEPT ![c] = [status |-> "finished", registered |-> FALSE,
                                    disposed |-> TRUE, handler |-> "returned"]]
    /\ UNCHANGED nLog

InvokeInit ==
    QInitVars /\ CInitVars /\ SInitVars /\ RInitVars /\ IInitVars /\ NInitVars

InvokeNext ==
    \/ \E req \in InvokeRequests : InvokeRoute(req) /\ UNCHANGED <<qvars, cvars, svars, rvars, ivars>>
    \/ \E c \in 1..MaxInvokes : InvokedHandlerReturns(c) /\ UNCHANGED <<qvars, cvars, svars, rvars, ivars>>

SpecInvoke == InvokeInit /\ [][InvokeNext]_vars

\* the header is a full semantic version (major.minor.patch, with or without
\* a pre-release tag) that is not in the range 1.x
SemverOutside1x(h) ==
    /\ h.present
    /\ Len(h.nums) = 3
    /\ (h.nums[1] # 1 \/ h.pre)

\* C31: an invoke request whose protocol version does not satisfy 1.x is
\* answered with HTTP 400 and VersionNotSupported, no context is created or
\* registered for it and no handler runs.
C31_UnsupportedVersionRejected ==
    \A k \in 1..Len(nLog) :
        SemverOutside1x(nLog[k].req.version) =>
            /\ nLog[k].httpStatus = 400
            /\ nLog[k].errorName = "VersionNotSupported"
            /\ nLog[k].ctx = 0

\* C36: after an invoke request whose Invoke message the context rejected
\* (validation failure), no context created for that request is still
\* registered in the context manager or left undisposed.
C36_RejectedInvokeLeavesNoContext ==
    \A k \in 1..Len(nLog) :
        (nLog[k].ctx # 0 /\ nLog[k].errorName # "none") =>
            /\ ~nCtx[nLog[k].ctx].registered
            /\ nCtx[nLog[k].ctx].disposed

====
